---- MODULE Spec2Model ----
(***************************************************************************)
(* Model of the request handlers and of the Evolink provider adapter of    *)
(* the repository: the vendor status mapper, the Evolink webhook receiver, *)
(* EvolinkProvider.generate/query, the chat handlers and the presigned-URL *)
(* handler.  JavaScript values are records tagged by their type; strings   *)
(* whose characters matter are sequences of one-character strings.         *)
(***************************************************************************)
EXTENDS Integers, Sequences, FiniteSets, TLC

VARIABLES
    statusArg,     \* the vendor status value handed to the status mappers
    provStatus,    \* what EvolinkProvider.mapStatus returned for it
    hookStatus,    \* what the webhook handler's inline switch computed for it
    tasks,         \* the ai_task table: row id -> row
    hookRaw,       \* raw body of the webhook delivery handled last
    hookEnv,       \* what that delivery met: the configs, saveFiles and the database
    hookResp,      \* the HTTP response it was answered with
    hookRead,      \* id of the task row the handler found ("none" if none)
    hookBefore,    \* the status that row had when it was found ("none" if none)
    hookWrites,    \* the updateAITaskById calls it made, in order
    hookSaves,     \* the saveFiles calls it made: the files handed over and the answer
    deliveries,    \* number of webhook deliveries handled so far
    vendor,        \* the task object the vendor reports (query response = callback body)
    provCall,      \* the EvolinkProvider call made last: requests sent and outcome
    chats,         \* the chat table: chat id -> row
    messages,      \* the chat_message table, in order of creation
    llmCalls,      \* the streamText calls made, in order
    stream,        \* the open response stream whose onFinish is pending
    chatReq,       \* the request POST /api/chat handled last, with its session
    chatResp,      \* the response it was answered with
    chatThrown,    \* message of the error its catch block caught ("" if none)
    streamEnd,     \* last message handed to onFinish when the stream ended
    delReq,        \* the request the chat delete handler handled last
    delResp,       \* the response it was answered with
    now,           \* the clock read by new Date()
    presignReq,    \* the request the presigned-URL handler handled last
    presignResp,   \* the response it was answered with
    mgrConfigs,    \* the configs handed to getAIManagerWithConfigs
    manager,       \* the AIManager it returned (Null before the call)
    aiService,     \* the module-level variable aiService
    svcCalls,      \* the calls of getAIService: call number -> position, configs, result
    upload,        \* the run of an upload-file handler: files, loop position, results, response
    storageLog,    \* the uploadFile calls the storage service saw begin and end, in order
    hookProcs,     \* webhook deliveries handled concurrently: delivery -> position, task read
    admin          \* the admin edit-credits form: the user table, submits made, last submit

statusVars == <<statusArg, provStatus, hookStatus>>
hookVars == <<tasks, hookRaw, hookEnv, hookResp, hookRead, hookBefore, hookWrites,
             hookSaves, deliveries>>
provVars == <<vendor, provCall>>
chatVars == <<messages, llmCalls, stream, chatReq, chatResp, chatThrown, streamEnd>>
delVars == <<chats, delReq, delResp, now>>
presignVars == <<presignReq, presignResp>>
svcVars == <<mgrConfigs, manager, aiService, svcCalls>>
uploadVars == <<upload, storageLog>>
otherVars == <<svcVars, uploadVars, hookProcs, admin>>

vars == <<statusArg, provStatus, hookStatus,
          tasks, hookRaw, hookEnv, hookResp, hookRead, hookBefore, hookWrites, hookSaves,
          deliveries,
          vendor, provCall,
          chats, messages, llmCalls, stream, chatReq, chatResp, chatThrown, streamEnd,
          delReq, delResp, now, presignReq, presignResp,
          mgrConfigs, manager, aiService, svcCalls, upload, storageLog, hookProcs, admin>>

(***************************************************************************)
(* JavaScript values                                                       *)
(***************************************************************************)
Undefined == [t |-> "undefined"]
Str(s) == [t |-> "string", s |-> s]

UpperChars == <<"A","B","C","D","E","F","G","H","I","J","K","L","M",
                "N","O","P","Q","R","S","T","U","V","W","X","Y","Z">>
LowerChars == <<"a","b","c","d","e","f","g","h","i","j","k","l","m",
                "n","o","p","q","r","s","t","u","v","w","x","y","z">>

ToLowerChar(c) ==
    IF \E i \in DOMAIN UpperChars : UpperChars[i] = c
    THEN LowerChars[CHOOSE i \in DOMAIN UpperChars : UpperChars[i] = c]
    ELSE c

ToUpperChar(c) ==
    IF \E i \in DOMAIN LowerChars : LowerChars[i] = c
    THEN UpperChars[CHOOSE i \in DOMAIN LowerChars : LowerChars[i] = c]
    ELSE c

\* String.prototype.toLowerCase on a sequence of characters
toLowerCase(s) == [i \in DOMAIN s |-> ToLowerChar(s[i])]

\* status?.toLowerCase(): undefined when the receiver is missing
OptLowerCase(v) == IF v.t = "undefined" THEN Undefined ELSE Str(toLowerCase(v.s))

(***************************************************************************)
(* AITaskStatus and the vendor's status words                              *)
(***************************************************************************)
AITaskStatus == {"PENDING", "PROCESSING", "SUCCESS", "FAILED", "CANCELED"}

W_pending == <<"p","e","n","d","i","n","g">>
W_processing == <<"p","r","o","c","e","s","s","i","n","g">>
W_completed == <<"c","o","m","p","l","e","t","e","d">>
W_failed == <<"f","a","i","l","e","d">>
W_cancelled == <<"c","a","n","c","e","l","l","e","d">>
W_canceled == <<"c","a","n","c","e","l","e","d">>

\* EvolinkProvider.mapStatus, a bug that compares without lower-casing
mapStatus_CaseSensitive(status) ==
    LET k == status IN
    CASE k = Str(W_pending) -> "PENDING"
      [] k = Str(W_processing) -> "PROCESSING"
      [] k = Str(W_completed) -> "SUCCESS"
      [] k = Str(W_failed) -> "FAILED"
      [] k = Str(W_cancelled) -> "CANCELED"
      [] k = Str(W_canceled) -> "CANCELED"
      [] OTHER -> "PROCESSING"

\* EvolinkProvider.mapStatus
mapStatus(status) ==
    LET k == OptLowerCase(status) IN
    CASE k = Str(W_pending) -> "PENDING"
      [] k = Str(W_processing) -> "PROCESSING"
      [] k = Str(W_completed) -> "SUCCESS"
      [] k = Str(W_failed) -> "FAILED"
      [] k = Str(W_cancelled) -> "CANCELED"
      [] k = Str(W_canceled) -> "CANCELED"
      [] OTHER -> "PROCESSING"

\* the webhook switch with the American spelling forgotten
WebhookTaskStatus_NoCanceled(status) ==
    LET k == OptLowerCase(status) IN
    CASE k = Str(W_pending) -> "PENDING"
      [] k = Str(W_processing) -> "PROCESSING"
      [] k = Str(W_completed) -> "SUCCESS"
      [] k = Str(W_failed) -> "FAILED"
      [] k = Str(W_cancelled) -> "CANCELED"
      [] OTHER -> "PROCESSING"

\* the inline switch of the Evolink webhook handler
WebhookTaskStatus(status) ==
    LET k == OptLowerCase(status) IN
    CASE k = Str(W_pending) -> "PENDING"
      [] k = Str(W_processing) -> "PROCESSING"
      [] k = Str(W_completed) -> "SUCCESS"
      [] k = Str(W_failed) -> "FAILED"
      [] k = Str(W_cancelled) -> "CANCELED"
      [] k = Str(W_canceled) -> "CANCELED"
      [] OTHER -> "PROCESSING"

(***************************************************************************)
(* The ai_task table (AITask: id, providerTaskId, provider, status,        *)
(* taskInfo, taskResult, creditId)                                         *)
(***************************************************************************)
Null == [t |-> "null"]
Arr(a) == [t |-> "array", a |-> a]

TaskRowIds == {"r1", "r2", "r3"}

\* r3 is another provider's task that carries the same vendor task id as r1
InitTasks ==
    [r \in TaskRowIds |->
        [providerTaskId |-> IF r = "r2" THEN Str("t2") ELSE Str("t1"),
         provider |-> IF r = "r3" THEN "kie" ELSE "evolink",
         status |-> "PENDING",
         taskInfo |-> Null,
         taskResult |-> Null,
         creditId |-> IF r = "r1" THEN Str("credit1")
                      ELSE IF r = "r2" THEN Null ELSE Str("credit3")]]

NoResp == [status |-> 0, message |-> "none", detail |-> ""]

\* the webhook receiver has handled nothing
HookIdle ==
    /\ tasks = InitTasks
    /\ hookRaw = Null
    /\ hookEnv = Null
    /\ hookResp = NoResp
    /\ hookRead = "none"
    /\ hookBefore = "none"
    /\ hookWrites = <<>>
    /\ hookSaves = <<>>
    /\ deliveries = 0


\* the provider adapter has not been called
ProvIdle ==
    /\ vendor = Null
    /\ provCall = [op |-> "none"]

\* the presigned-URL handler has handled nothing
PresignIdle ==
    /\ presignReq = Null
    /\ presignResp = NoResp

\* the chat handlers have handled nothing and the tables are empty
ChatIdle ==
    /\ chats = <<>>
    /\ messages = <<>>
    /\ llmCalls = <<>>
    /\ stream = Null
    /\ chatReq = Null
    /\ chatResp = NoResp
    /\ chatThrown = ""
    /\ streamEnd = Null
    /\ delReq = Null
    /\ delResp = NoResp
    /\ now = 0
    /\ PresignIdle

\* the status mappers have been given nothing
StatusIdle ==
    /\ statusArg = Undefined
    /\ provStatus = "none"
    /\ hookStatus = "none"

\* getAIManagerWithConfigs and getAIService have not been called
ServiceIdle ==
    /\ mgrConfigs = Null
    /\ manager = Null
    /\ aiService = Null
    /\ svcCalls = <<>>

\* the subsystems added to the model after the handlers above are idle
OtherIdle ==
    ServiceIdle /\ upload = Null /\ storageLog = <<>> /\ hookProcs = <<>> /\ admin = Null

(***************************************************************************)
(* The status values the mappers are run on: every casing of every vendor  *)
(* word, strings that are no vendor word, and a missing status.            *)
(***************************************************************************)
VendorWords == {W_pending, W_processing, W_completed, W_failed, W_cancelled, W_canceled}

Casings(w) ==
    { [i \in DOMAIN w |-> IF i \in m THEN ToUpperChar(w[i]) ELSE w[i]] :
        m \in SUBSET (DOMAIN w) }

OtherWords ==
    { <<>>,
      <<"d","o","n","e">>,
      <<"s","u","c","c","e","s","s">>,
      <<"c","o","m","p","l","e","t","e">>,
      <<" ","f","a","i","l","e","d">>,
      <<"c","a","n","c","e","l">>,
      <<"P","E","N","D","I","N","G","!">>,
      <<"e","r","r","o","r">> }

StatusInputs ==
    {Undefined} \cup {Str(s) : s \in OtherWords}
      \cup UNION { {Str(s) : s \in Casings(w)} : w \in VendorWords }

(***************************************************************************)
(* Specification SpecStatus: the two status mappers on one status value    *)
(***************************************************************************)
InitStatus ==
    /\ statusArg \in StatusInputs
    /\ provStatus = "none"
    /\ hookStatus = "none"
    /\ HookIdle
    /\ ProvIdle
    /\ ChatIdle
    /\ OtherIdle

\* poll path: query() calls this.mapStatus(data.status)
CallMapStatus ==
    /\ provStatus = "none"
    /\ provStatus' = mapStatus(statusArg)
    /\ UNCHANGED <<statusArg, hookStatus>>
    /\ UNCHANGED <<hookVars, provVars, chatVars, delVars, presignVars, otherVars>>

\* webhook path: the switch over payload.status
RunWebhookSwitch ==
    /\ hookStatus = "none"
    /\ hookStatus' = WebhookTaskStatus(statusArg)
    /\ UNCHANGED <<statusArg, provStatus>>
    /\ UNCHANGED <<hookVars, provVars, chatVars, delVars, presignVars, otherVars>>

NextStatus == CallMapStatus \/ RunWebhookSwitch

SpecStatus == InitStatus /\ [][NextStatus]_vars

\* s equals the vendor word w up to the case of its letters
EqIgnoreCase(s, w) ==
    /\ Len(s) = Len(w)
    /\ \A i \in DOMAIN w : s[i] = w[i] \/ s[i] = ToUpperChar(w[i])

IsWord(v, w) == v.t = "string" /\ EqIgnoreCase(v.s, w)

\* the table of the claim
StatusTable(v) ==
    IF IsWord(v, W_pending) THEN "PENDING"
    ELSE IF IsWord(v, W_processing) THEN "PROCESSING"
    ELSE IF IsWord(v, W_completed) THEN "SUCCESS"
    ELSE IF IsWord(v, W_failed) THEN "FAILED"
    ELSE IF IsWord(v, W_cancelled) \/ IsWord(v, W_canceled) THEN "CANCELED"
    ELSE "PROCESSING"

\* C1: mapStatus returns, for every status string in any casing and for a
\* missing status, the member of the enum the table names: the five vendor
\* words map to "PENDING", "PROCESSING", "SUCCESS", "FAILED", "CANCELED" (both
\* spellings), everything else to "PROCESSING".
C1_MapStatusTotal ==
    provStatus # "none" =>
        /\ provStatus \in AITaskStatus
        /\ provStatus = StatusTable(statusArg)

C1_Witness ==
    /\ provStatus = "CANCELED"
    /\ statusArg = Str(<<"C","a","n","c","e","L","E","D">>)

\* C2: for one and the same status value the webhook's switch and
\* mapStatus compute the same internal status.
C2_WebhookAgreesWithPoll ==
    (provStatus # "none" /\ hookStatus # "none") => provStatus = hookStatus

C2_Witness ==
    /\ provStatus = "CANCELED"
    /\ hookStatus = "CANCELED"
    /\ statusArg = Str(<<"c","a","n","c","e","l","e","d">>)

(***************************************************************************)
(* The Evolink webhook handler (POST /api/ai/notify/evolink)               *)
(***************************************************************************)
\* JavaScript truthiness of the values that occur in a payload
Truthy(v) ==
    CASE v.t = "undefined" -> FALSE
      [] v.t = "null" -> FALSE
      [] v.t = "string" -> v.s # ""
      [] OTHER -> TRUE

\* a || b
OrElse(a, b) == IF Truthy(a) THEN a ELSE b

\* payload.error?.code and payload.error?.message
ErrorField(error, f) == IF error.t \in {"undefined", "null"} THEN Undefined ELSE error[f]

Reply(code, msg) == [status |-> code, message |-> msg, detail |-> ""]

\* the catch block: a 500 whose message carries err.message
HookCatch(errMessage) ==
    [status |-> 500, message |-> "Webhook handler failed", detail |-> errMessage]

\* findAITaskByProviderTaskId(taskId, provider): the id of the row with that
\* vendor task id and provider, "none" when there is none
findAITaskByProviderTaskId(table, taskId, provider) ==
    IF \E r \in DOMAIN table :
           table[r].providerTaskId = taskId /\ table[r].provider = provider
    THEN CHOOSE r \in DOMAIN table :
           table[r].providerTaskId = taskId /\ table[r].provider = provider
    ELSE "none"

\* updateAITaskById(id, data): sets the given columns of row id
updateAITaskById(table, id, data) ==
    [table EXCEPT ![id] = [@ EXCEPT !.status = data.status,
                                    !.taskInfo = data.taskInfo,
                                    !.taskResult = data.taskResult,
                                    !.creditId = data.creditId]]

\* saveFiles(filesToSave) when it returns: nothing, every file uploaded (in
\* the order given or in the reverse order), or only the first file uploaded
\* and the others returned without a url
saveFiles(files, mode) ==
    LET StoredUrls == <<Str("s0"), Str("s1"), Str("s2"), Str("s3")>> IN
    CASE mode = "none" -> Undefined
      [] mode = "all" ->
           Arr([j \in DOMAIN files |->
                  [url |-> StoredUrls[files[j].index + 1], index |-> files[j].index]])
      [] mode = "reversed" ->
           Arr([j \in DOMAIN files |->
                  [url |-> StoredUrls[files[Len(files) + 1 - j].index + 1],
                   index |-> files[Len(files) + 1 - j].index]])
      [] OTHER ->
           Arr([j \in DOMAIN files |->
                  [url |-> IF j = 1 THEN StoredUrls[files[j].index + 1] ELSE Undefined,
                   index |-> files[j].index]])

\* the uploaded urls placed by the position of the file in the answer
ApplyUploaded_ByPosition(list, uploaded) ==
    [i \in DOMAIN list |->
        IF i \in DOMAIN uploaded /\ Truthy(uploaded[i].url)
        THEN [list[i] EXCEPT !.url = uploaded[i].url]
        ELSE list[i]]

\* uploadedFiles.forEach(file => if (file.url && list[file.index]) list[file.index].url = file.url):
\* entry i (0-based i-1) takes the url of the last uploaded file that names it
ApplyUploaded(list, uploaded) ==
    [i \in DOMAIN list |->
        LET hits == {j \in DOMAIN uploaded :
                        uploaded[j].index = i - 1 /\ Truthy(uploaded[j].url)}
        IN IF hits = {} THEN list[i]
           ELSE LET last == CHOOSE j \in hits : \A k \in hits : k <= j
                IN [list[i] EXCEPT !.url = uploaded[last].url]]

\* the mapping with the results that are empty strings left out
MediaEntries_SkipEmpty(results) ==
    LET kept == SelectSeq(results, Truthy)
    IN [i \in DOMAIN kept |-> [id |-> "", url |-> kept[i]]]

\* results.map(url => ({id: '', createTime: new Date(), videoUrl | imageUrl: url}));
\* the field url stands for videoUrl in a video list and imageUrl in an image list
MediaEntries(results) == [i \in DOMAIN results |-> [id |-> "", url |-> results[i]]]

\* the storage step on one media list: the list with the uploaded urls, or a throw
HookStore(list, env) ==
    IF Len(list) > 0
    THEN IF env.save = "throws"
         THEN [threw |-> TRUE, list |-> list, saveCalls |-> <<>>]
         ELSE LET filesToSave == [i \in DOMAIN list |->
                                     [url |-> list[i].url, index |-> i - 1]]
                  uploaded == saveFiles(filesToSave, env.save)
              IN [threw |-> FALSE,
                  list |-> IF Truthy(uploaded) THEN ApplyUploaded(list, uploaded.a)
                           ELSE list,
                  saveCalls |-> <<[files |-> filesToSave, uploaded |-> uploaded]>>]
    ELSE [threw |-> FALSE, list |-> list, saveCalls |-> <<>>]

\* lines 71-141: taskInfo built from the payload
HookTaskInfo(payload, taskStatus, env) ==
    LET base == [status |-> payload.status,
                 errorCode |-> OrElse(ErrorField(payload.error, "code"), Str("")),
                 errorMessage |-> OrElse(ErrorField(payload.error, "message"), Str("")),
                 images |-> Undefined,
                 videos |-> Undefined]
    IN IF taskStatus = "SUCCESS" /\ Truthy(payload.results)
       THEN IF env.cfg = "throws"
            THEN [threw |-> "getAllConfigs failed", info |-> base, saveCalls |-> <<>>]
            ELSE LET results == payload.results.a
                     isVideo == payload.type = Str("video")
                     useCustomStorage == env.cfg = "true"
                     list == MediaEntries(results)
                     st == IF useCustomStorage
                           THEN HookStore(list, env)
                           ELSE [threw |-> FALSE, list |-> list, saveCalls |-> <<>>]
                 IN [threw |-> IF st.threw THEN "saveFiles failed" ELSE "",
                     info |-> IF isVideo THEN [base EXCEPT !.videos = Arr(st.list)]
                              ELSE [base EXCEPT !.images = Arr(st.list)],
                     saveCalls |-> st.saveCalls]
       ELSE [threw |-> "", info |-> base, saveCalls |-> <<>>]

\* updateData with the credit id dropped instead of kept
updateData_NoCredit(taskStatus, taskInfo, rawBody, task) ==
    [status |-> taskStatus, taskInfo |-> taskInfo, taskResult |-> rawBody,
     creditId |-> Null]

\* updateData that keeps a status that is already resolved
updateData_KeepResolved(taskStatus, taskInfo, rawBody, task) ==
    [status |-> IF task.status \in {"SUCCESS", "FAILED", "CANCELED"} THEN task.status
                ELSE taskStatus,
     taskInfo |-> taskInfo, taskResult |-> rawBody, creditId |-> task.creditId]

\* lines 144-149: the columns written back
updateData(taskStatus, taskInfo, rawBody, task) ==
    [status |-> taskStatus, taskInfo |-> taskInfo, taskResult |-> rawBody,
     creditId |-> task.creditId]

HookResult(resp, read, writes, table) ==
    [resp |-> resp, read |-> read, writes |-> writes, table |-> table, saves |-> <<>>]

\* lines 48-157 with the row written before the media are stored
HookAfterLookup_UpdateFirst(raw, env, table, id) ==
    LET payload == raw.value
        taskStatus == WebhookTaskStatus(payload.status)
        plain == HookTaskInfo(payload, taskStatus, [env EXCEPT !.cfg = "false"])
        ti == HookTaskInfo(payload, taskStatus, env)
        data == updateData(taskStatus, plain.info, raw, table[id])
        w == <<[id |-> id, data |-> data]>>
    IN IF env.db = "updateThrows"
       THEN HookResult(HookCatch("update failed"), id, w, table)
       ELSE IF ti.threw # ""
            THEN HookResult(HookCatch(ti.threw), id, w, updateAITaskById(table, id, data))
            ELSE HookResult(Reply(200, "success"), id, w,
                            updateAITaskById(table, id, data))

\* lines 48-157: status, taskInfo, then the single update and the answer
HookAfterLookup(raw, env, table, id) ==
    LET payload == raw.value
        taskStatus == WebhookTaskStatus(payload.status)
        ti == HookTaskInfo(payload, taskStatus, env)
        data == updateData(taskStatus, ti.info, raw, table[id])
    IN IF ti.threw # ""
       THEN HookResult(HookCatch(ti.threw), id, <<>>, table)
       ELSE IF env.db = "updateThrows"
            THEN [HookResult(HookCatch("update failed"), id,
                             <<[id |-> id, data |-> data]>>, table)
                    EXCEPT !.saves = ti.saveCalls]
            ELSE [HookResult(Reply(200, "success"), id,
                             <<[id |-> id, data |-> data]>>,
                             updateAITaskById(table, id, data))
                    EXCEPT !.saves = ti.saveCalls]

\* lines 20-165: the whole handler on one delivery
HookPOST(raw, env, table) ==
    IF raw.kind = "garbage"
    THEN HookResult(HookCatch("Unexpected token"), "none", <<>>, table)
    ELSE IF raw.kind = "null"
    THEN HookResult(HookCatch("Cannot read properties of null"), "none", <<>>, table)
    ELSE LET taskId == raw.value.id
         IN IF ~Truthy(taskId)
            THEN HookResult(Reply(400, "Missing task id"), "none", <<>>, table)
            ELSE IF env.db = "findThrows"
            THEN HookResult(HookCatch("query failed"), "none", <<>>, table)
            ELSE LET id == findAITaskByProviderTaskId(table, taskId, "evolink")
                 IN IF id = "none"
                    THEN HookResult(Reply(404, "Task not found"), "none", <<>>, table)
                    ELSE HookAfterLookup(raw, env, table, id)

(***************************************************************************)
(* Webhook deliveries and the environment of one delivery                  *)
(***************************************************************************)
MaxDeliveries == 2

VendorUrls == <<Str("u1"), Str("u2")>>
VendorError == [t |-> "object", code |-> Str("E42"), message |-> Str("generation failed")]

Payload(id, status, type, results, error) ==
    [t |-> "object", id |-> id, status |-> status, type |-> type,
     results |-> results, error |-> error]

RawObject(payload) == [kind |-> "object", value |-> payload]


\* <<payload.type, payload.results>>
NoMedia == <<Undefined, Undefined>>

BodiesFor(id, statuses, shapes) ==
    { RawObject(Payload(id, st, sh[1], sh[2],
                        IF st = Str(W_failed) THEN VendorError ELSE Undefined)) :
        st \in statuses, sh \in shapes }

\* bodies that do not parse to an object, bodies without a usable id, bodies
\* for an unknown task (t9), for the task of rows r1 and r3 (t1) and of r2 (t2)
HookBodies ==
    {[kind |-> "garbage"], [kind |-> "null"]}
      \cup BodiesFor(Undefined, {Str(W_completed)}, {NoMedia})
      \cup BodiesFor(Str(""), {Str(W_completed)}, {NoMedia})
      \cup BodiesFor(Str("t9"), {Str(W_completed), Str(W_failed)}, {NoMedia})
      \cup BodiesFor(Str("t1"), {Undefined, Str(W_completed), Str(W_failed), Str(<<"C","A","N","C","E","L","L","E","D">>)}, {NoMedia, <<Str("video"), Arr(VendorUrls)>>, <<Undefined, Arr(VendorUrls)>>})
      \cup BodiesFor(Str("t2"), {Undefined, Str(W_completed), Str(W_failed), Str(<<"C","A","N","C","E","L","L","E","D">>)}, {NoMedia, <<Str("video"), Arr(VendorUrls)>>})

Env(cfg, save, db) == [cfg |-> cfg, save |-> save, db |-> db]

PlainEnv == Env("false", "none", "ok")
StorageEnvs ==
    { Env("true", "all", "ok"), Env("true", "none", "ok"), Env("true", "first", "ok"),
      Env("true", "reversed", "ok"),
      Env("throws", "none", "ok"), Env("true", "throws", "ok") }

\* the configuration and storage only matter to a body that reaches them
ReachesStorage(raw) ==
    /\ raw.kind = "object"
    /\ Truthy(raw.value.id)
    /\ raw.value.status = Str(W_completed)
    /\ Truthy(raw.value.results)

HookCases ==
    { [raw |-> raw, env |-> PlainEnv] : raw \in HookBodies }
      \cup { [raw |-> raw, env |-> env] :
               raw \in {r \in HookBodies : ReachesStorage(r)}, env \in StorageEnvs }
      \cup { [raw |-> raw, env |-> env] :
               raw \in BodiesFor(Str("t1"), {Str(W_completed), Str(W_failed)}, {NoMedia}),
               env \in { Env("false", "none", "updateThrows"), Env("false", "none", "findThrows") } }

InitWebhook == HookIdle /\ StatusIdle /\ ProvIdle /\ ChatIdle /\ OtherIdle

\* one webhook delivery, handled from the request to the response
Deliver(raw, env) ==
    /\ deliveries < MaxDeliveries
    /\ \E o \in {HookPOST(raw, env, tasks)} :
          /\ tasks' = o.table
          /\ hookResp' = o.resp
          /\ hookRead' = o.read
          /\ hookBefore' = IF o.read = "none" THEN "none" ELSE tasks[o.read].status
          /\ hookWrites' = o.writes
          /\ hookSaves' = o.saves
    /\ hookRaw' = raw
    /\ hookEnv' = env
    /\ deliveries' = deliveries + 1
    /\ UNCHANGED statusVars

NextWebhook ==
    \E c \in HookCases :
        Deliver(c.raw, c.env) /\ UNCHANGED <<provVars, chatVars, delVars, presignVars, otherVars>>

SpecWebhook == InitWebhook /\ [][NextWebhook]_vars

\* C3: a delivery answered with {message: 'success'} made exactly one update,
\* on the evolink row whose providerTaskId is payload.id: that row's status is
\* the mapped payload.status, its taskResult the raw body, its creditId the
\* one it had, and every other row is as before.
C3_SuccessUpdatesOneRow ==
    [][ hookResp'.message = "success" =>
          /\ Len(hookWrites') = 1
          /\ hookRead' \in TaskRowIds
          /\ hookWrites'[1].id = hookRead'
          /\ tasks[hookRead'].provider = "evolink"
          /\ tasks[hookRead'].providerTaskId = hookRaw'.value.id
          /\ tasks'[hookRead'].status = StatusTable(hookRaw'.value.status)
          /\ tasks'[hookRead'].taskResult = hookRaw'
          /\ tasks'[hookRead'].creditId = tasks[hookRead'].creditId
          /\ tasks'[hookRead'].provider = tasks[hookRead'].provider
          /\ tasks'[hookRead'].providerTaskId = tasks[hookRead'].providerTaskId
          /\ \A r \in TaskRowIds \ {hookRead'} : tasks'[r] = tasks[r] ]_vars

C3_Witness ==
    /\ hookResp.message = "success"
    /\ hookRead = "r1"
    /\ tasks["r1"].status = "SUCCESS"
    /\ tasks["r1"].creditId = Str("credit1")
    /\ tasks["r1"].taskResult = hookRaw
    /\ tasks["r3"] = InitTasks["r3"]

\* C4: a delivery that is not answered with success leaves every task row
\* as it was: 400 for a payload without id, 404 for an id with no evolink
\* task, 500 for a thrown error.
C4_FailureLeavesTasks ==
    [][ (deliveries' = deliveries + 1 /\ hookResp'.message # "success") =>
          /\ tasks' = tasks
          /\ hookResp'.status \in {400, 404, 500}
          /\ (hookRaw'.kind = "object" /\ ~Truthy(hookRaw'.value.id))
                => hookResp'.status = 400
          /\ (hookRaw'.kind = "object" /\ Truthy(hookRaw'.value.id)
                /\ hookResp'.status # 500
                /\ ~\E r \in TaskRowIds :
                        /\ tasks[r].provider = "evolink"
                        /\ tasks[r].providerTaskId = hookRaw'.value.id)
                => hookResp'.status = 404
          /\ hookRaw'.kind # "object" => hookResp'.status = 500 ]_vars

C4_Witness ==
    /\ deliveries = 2
    /\ hookResp.status = 500
    /\ hookResp.detail = "saveFiles failed"
    /\ hookRead = "r1"
    /\ tasks["r1"].status = "FAILED"

\* C13: once the stored status of a task is SUCCESS, FAILED or CANCELED, a
\* later delivery for the same provider task id does not change it.
C13_ResolvedStatusIsFinal ==
    (hookResp.message = "success" /\ hookBefore \in {"SUCCESS", "FAILED", "CANCELED"})
        => tasks[hookRead].status = hookBefore

\* C14: the handler writes the status without looking at the stored one: a
\* delivery answered with success leaves the row it found with the mapped
\* status of its own payload, whatever status the row had, and a delivery that
\* is not answered with success changes no status, so the stored status is
\* that of the delivery whose update ran last.
C14_LastUpdateWins ==
    [][ deliveries' = deliveries + 1 =>
          IF hookResp'.message = "success"
          THEN /\ tasks'[hookRead'].status = StatusTable(hookRaw'.value.status)
               /\ hookBefore' = tasks[hookRead'].status
          ELSE \A r \in TaskRowIds : tasks'[r].status = tasks[r].status ]_vars

C14_Witness ==
    /\ deliveries = 2
    /\ hookResp.message = "success"
    /\ hookRead = "r1"
    /\ hookBefore = "SUCCESS"
    /\ hookRaw.value.status = Undefined
    /\ tasks["r1"].status = "PROCESSING"

(***************************************************************************)
(* EvolinkProvider.generate and EvolinkProvider.query                      *)
(***************************************************************************)

Threw(fetches, net, message) ==
    [fetches |-> fetches, net |-> net, threw |-> TRUE, error |-> message, result |-> Null,
     saves |-> <<>>]
Returned(fetches, net, result) ==
    [fetches |-> fetches, net |-> net, threw |-> FALSE, error |-> "", result |-> result,
     saves |-> <<>>]

\* fetch that sends the request again when the answer is not OK
VendorFetch_Retry(req, net) == IF net.kind = "notOk" THEN <<req, req>> ELSE <<req>>

\* await fetch(url, {method, headers, body}): the requests put on the wire
VendorFetch(req, net) == <<req>>

\* formatGenerateInput: the request body; a field that is Undefined is absent
formatGenerateInput(mediaType, model, prompt, options) ==
    LET input == [model |-> model,
                  prompt |-> IF Truthy(prompt) THEN prompt ELSE Undefined,
                  size |-> Undefined, seed |-> Undefined, nsfw_check |-> Undefined,
                  image_urls |-> Undefined, aspect_ratio |-> Undefined,
                  generation_type |-> Undefined, callback_url |-> Undefined]
        imageUrls == IF Truthy(options.image_input) /\ options.image_input.t = "array"
                     THEN options.image_input ELSE Undefined
    IN IF ~Truthy(options) THEN input
       ELSE IF mediaType = Str("image")
       THEN [input EXCEPT
               !.size = IF Truthy(options.size) THEN options.size
                        ELSE IF Truthy(options.aspect_ratio) THEN options.aspect_ratio
                        ELSE Undefined,
               !.seed = IF Truthy(options.seed) THEN options.seed ELSE Undefined,
               !.nsfw_check = options.nsfw_check,
               !.image_urls = imageUrls]
       ELSE IF mediaType = Str("video")
       THEN [input EXCEPT
               !.aspect_ratio = IF Truthy(options.aspect_ratio) THEN options.aspect_ratio
                                ELSE Undefined,
               !.generation_type = IF Truthy(options.generation_type)
                                   THEN options.generation_type ELSE Undefined,
               !.image_urls = imageUrls]
       ELSE input

\* callbackUrl.startsWith(prefix) and callbackUrl.includes(part) on character sequences
StartsWith(str, prefix) ==
    /\ Len(str) >= Len(prefix)
    /\ \A i \in DOMAIN prefix : str[i] = prefix[i]

Includes(str, part) ==
    \E k \in 0..(Len(str) - Len(part)) : \A i \in DOMAIN part : str[k + i] = part[i]


\* the callback url test with every scheme that starts with 'http' let through
isValidCallbackUrl_AnyHttp(callbackUrl) ==
    /\ callbackUrl.t = "string"
    /\ callbackUrl.s # <<>>
    /\ StartsWith(callbackUrl.s, <<"h","t","t","p">>)
    /\ ~Includes(callbackUrl.s, <<"l","o","c","a","l","h","o","s","t">>)
    /\ ~Includes(callbackUrl.s, <<"1","2","7",".","0",".","0",".","1">>)

\* lines 227-232
isValidCallbackUrl(callbackUrl) ==
    /\ callbackUrl.t = "string"
    /\ callbackUrl.s # <<>>
    /\ StartsWith(callbackUrl.s, <<"h","t","t","p","s">>)
    /\ ~Includes(callbackUrl.s, <<"l","o","c","a","l","h","o","s","t">>)
    /\ ~Includes(callbackUrl.s, <<"1","2","7",".","0",".","0",".","1">>)

\* generate that takes every media type but video for an image
generate_DefaultsToImage(params, net) ==
    IF ~Truthy(params.mediaType) THEN Threw(<<>>, net, "mediaType is required")
    ELSE IF ~Truthy(params.model) THEN Threw(<<>>, net, "model is required")
    ELSE IF ~Truthy(params.prompt) /\ ~Truthy(params.options)
    THEN Threw(<<>>, net, "prompt or options is required")
    ELSE LET endpoint == IF params.mediaType = Str("video") THEN "/v1/videos/generations"
                         ELSE "/v1/images/generations"
             body0 == formatGenerateInput(params.mediaType, params.model,
                                          params.prompt, params.options)
             requestBody == IF isValidCallbackUrl(params.callbackUrl)
                            THEN [body0 EXCEPT !.callback_url = params.callbackUrl]
                            ELSE body0
             req == [method |-> "POST", path |-> endpoint, body |-> requestBody]
             sent == VendorFetch(req, net)
         IN CASE net.kind = "networkError" -> Threw(sent, net, "fetch failed")
              [] net.kind = "notOk" -> Threw(sent, net, "Evolink request failed with status")
              [] net.kind = "badJson" -> Threw(sent, net, "Unexpected token")
              [] OTHER ->
                   LET data == net.data
                   IN IF ~Truthy(data) \/ ~Truthy(data.id)
                      THEN Threw(sent, net, "Evolink generate failed: no id in response")
                      ELSE Returned(sent, net,
                             [taskStatus |-> mapStatus(OrElse(data.status, Str(W_pending))),
                              taskId |-> data.id,
                              taskInfo |-> [status |-> data.status],
                              taskResult |-> data])

\* lines 190-274
generate(params, net) ==
    IF ~Truthy(params.mediaType) THEN Threw(<<>>, net, "mediaType is required")
    ELSE IF ~Truthy(params.model) THEN Threw(<<>>, net, "model is required")
    ELSE IF ~Truthy(params.prompt) /\ ~Truthy(params.options)
    THEN Threw(<<>>, net, "prompt or options is required")
    ELSE IF params.mediaType \notin {Str("video"), Str("image")}
    THEN Threw(<<>>, net, "Unsupported media type")
    ELSE LET endpoint == IF params.mediaType = Str("video") THEN "/v1/videos/generations"
                         ELSE "/v1/images/generations"
             body0 == formatGenerateInput(params.mediaType, params.model,
                                          params.prompt, params.options)
             requestBody == IF isValidCallbackUrl(params.callbackUrl)
                            THEN [body0 EXCEPT !.callback_url = params.callbackUrl]
                            ELSE body0
             req == [method |-> "POST", path |-> endpoint, body |-> requestBody]
             sent == VendorFetch(req, net)
         IN CASE net.kind = "networkError" -> Threw(sent, net, "fetch failed")
              [] net.kind = "notOk" -> Threw(sent, net, "Evolink request failed with status")
              [] net.kind = "badJson" -> Threw(sent, net, "Unexpected token")
              [] OTHER ->
                   LET data == net.data
                   IN IF ~Truthy(data) \/ ~Truthy(data.id)
                      THEN Threw(sent, net, "Evolink generate failed: no id in response")
                      ELSE Returned(sent, net,
                             [taskStatus |-> mapStatus(OrElse(data.status, Str(W_pending))),
                              taskId |-> data.id,
                              taskInfo |-> [status |-> data.status],
                              taskResult |-> data])

\* filesToSave of query: one file per entry with a url, index = position in the list
QueryFilesToSave(list) ==
    LET RECURSIVE Collect(_)
        Collect(i) ==
            IF i > Len(list) THEN <<>>
            ELSE IF Truthy(list[i].url)
                 THEN <<[url |-> list[i].url, index |-> i - 1]>> \o Collect(i + 1)
                 ELSE Collect(i + 1)
    IN Collect(1)

\* lines 344-371 and 374-401: the storage step on one media list
QueryStore(list, save) ==
    LET filesToSave == QueryFilesToSave(list)
    IN IF Len(list) > 0 /\ Len(filesToSave) > 0
       THEN IF save = "throws"
            THEN [threw |-> TRUE, list |-> list, saveCalls |-> <<>>]
            ELSE LET uploaded == saveFiles(filesToSave, save)
                 IN [threw |-> FALSE,
                     list |-> IF Truthy(uploaded) THEN ApplyUploaded(list, uploaded.a)
                              ELSE list,
                     saveCalls |-> <<[files |-> filesToSave, uploaded |-> uploaded]>>]
       ELSE [threw |-> FALSE, list |-> list, saveCalls |-> <<>>]

\* lines 277-417; customStorage is this.configs.customStorage
query(taskId, mediaType, customStorage, net, save) ==
    LET req == [method |-> "GET", path |-> <<"/v1/tasks/", taskId>>, body |-> Undefined]
        sent == VendorFetch(req, net)
    IN CASE net.kind = "networkError" -> Threw(sent, net, "fetch failed")
         [] net.kind = "notOk" -> Threw(sent, net, "Evolink query failed with status")
         [] net.kind = "badJson" -> Threw(sent, net, "Unexpected token")
         [] net.data = Null -> Threw(sent, net, "Cannot read properties of null")
         [] OTHER ->
              LET data == net.data
                  taskStatus == mapStatus(data.status)
                  errorCode == OrElse(ErrorField(data.error, "code"), Str(""))
                  errorMessage == OrElse(ErrorField(data.error, "message"), Str(""))
              IN IF taskStatus # "SUCCESS"
                 THEN Returned(sent, net,
                        [taskId |-> taskId, taskStatus |-> taskStatus,
                         taskInfo |-> [status |-> data.status, errorCode |-> errorCode,
                                       errorMessage |-> errorMessage,
                                       images |-> Undefined, videos |-> Undefined],
                         taskResult |-> data])
                 ELSE LET results == IF Truthy(data.results) THEN data.results.a ELSE <<>>
                          isVideo == data.type = Str("video") \/ mediaType = Str("video")
                          list == MediaEntries(results)
                          st == IF customStorage THEN QueryStore(list, save)
                                ELSE [threw |-> FALSE, list |-> list, saveCalls |-> <<>>]
                      IN IF st.threw THEN Threw(sent, net, "saveFiles failed")
                         ELSE [Returned(sent, net,
                                 [taskId |-> taskId, taskStatus |-> taskStatus,
                                  taskInfo |-> [status |-> data.status,
                                                errorCode |-> Str(""),
                                                errorMessage |-> Str(""),
                                                images |-> IF isVideo THEN Undefined
                                                           ELSE Arr(st.list),
                                                videos |-> IF isVideo THEN Arr(st.list)
                                                           ELSE Undefined],
                                  taskResult |-> data])
                                 EXCEPT !.saves = st.saveCalls]

(***************************************************************************)
(* Specification SpecProvider: one vendor task, polled through the adapter *)
(* and reported to the webhook receiver                                    *)
(***************************************************************************)

VendorPayloads ==
    { Payload(Str("t1"), st, ty, rs, IF st = Str(W_failed) THEN VendorError ELSE Undefined) :
        st \in {Undefined, Str(W_completed), Str(<<"C","o","m","p","l","e","t","e","d">>),
                Str(W_failed), Str(W_processing)},
        ty \in {Undefined, Str("image"), Str("video")},
        rs \in {Undefined, Arr(<<>>), Arr(VendorUrls), Arr(<<Str(""), Str("u2")>>)} }
      \cup { Payload(Undefined, Str(W_pending), Undefined, Undefined, Undefined) }

Net(kind, data) == [kind |-> kind, data |-> data]
FailingNets == {Net("networkError", Null), Net("notOk", Null), Net("badJson", Null),
                Net("ok", Null)}

GenParams(mediaType, model, prompt, options, callbackUrl) ==
    [mediaType |-> mediaType, model |-> model, prompt |-> prompt,
     options |-> options, callbackUrl |-> callbackUrl]

\* requests that fail validation, valid ones against every answer of the
\* vendor, and valid ones with every kind of callback url
GenerateCases(data) ==
    LET opts == [t |-> "object", size |-> Undefined, aspect_ratio |-> Str("16:9"),
                 seed |-> Undefined, nsfw_check |-> Undefined,
                 image_input |-> Undefined, generation_type |-> Undefined]
        site == <<"h","t","t","p","s",":","/","/","a",".","i","o","/","c","b">>
    IN { [params |-> prm, net |-> Net("ok", data)] :
           prm \in { GenParams(Undefined, Str("m1"), Str("p"), Undefined, Undefined),
                     GenParams(Str(""), Str("m1"), Str("p"), Undefined, Undefined),
                     GenParams(Str("image"), Undefined, Str("p"), Undefined, Undefined),
                     GenParams(Str("video"), Str(""), Str("p"), Undefined, Undefined),
                     GenParams(Str("image"), Str("m1"), Undefined, Undefined, Undefined),
                     GenParams(Str("video"), Str("m1"), Str(""), Null, Str(site)),
                     GenParams(Str("music"), Str("m1"), Str("p"), Undefined, Undefined),
                     GenParams(Str("music"), Str("m1"), Undefined, opts, Str(site)),
                     GenParams(Str("image"), Str("m1"), Undefined, opts, Undefined),
                     GenParams(Str("video"), Str("m1"), Str(""), opts, Undefined) } }
         \cup { [params |-> GenParams(mt, Str("m1"), Str("p"), Undefined, Undefined),
                 net |-> net] :
                  mt \in {Str("image"), Str("video")},
                  net \in FailingNets \cup {Net("ok", data)} }
         \cup { [params |-> GenParams(Str("video"), Str("m1"), Str("p"), Undefined, cb),
                 net |-> Net("ok", data)] :
                  cb \in { Str(<<>>), Str(site),
                           Str(<<"h","t","t","p",":","/","/","a",".","i","o","/","c","b">>),
                           Str(<<"H","T","T","P","S",":","/","/","a",".","i","o">>),
                           Str(<<"h","t","t","p","s","x">>),
                           Str(<<"h","t","t","p","s",":","/","/","l","o","c","a","l","h","o","s","t","/","c","b">>),
                           Str(<<"h","t","t","p",":","/","/","l","o","c","a","l","h","o","s","t">>),
                           Str(<<"h","t","t","p","s",":","/","/","1","2","7",".","0",".","0",".","1",":","3","0","0","0">>),
                           Str(site \o <<"?","r","=","l","o","c","a","l","h","o","s","t">>) } }

QueryCases(data) ==
    { [mediaType |-> Undefined, customStorage |-> FALSE, net |-> net, save |-> "none"] :
        net \in FailingNets }
      \cup { [mediaType |-> mt, customStorage |-> FALSE, net |-> Net("ok", data), save |-> "none"] :
               mt \in {Undefined, Str("image"), Str("video")} }
      \cup { [mediaType |-> mt, customStorage |-> TRUE, net |-> Net("ok", data), save |-> sv] :
               mt \in {Undefined, Str("image"), Str("video")}, sv \in {"none", "all", "first", "reversed", "throws"} }

InitProvider ==
    /\ vendor \in VendorPayloads
    /\ provCall = [op |-> "none"]
    /\ HookIdle
    /\ StatusIdle
    /\ ChatIdle
    /\ OtherIdle

\* aiProvider.generate({params}): the task is created before the vendor calls back
ProviderGenerate ==
    /\ deliveries = 0
    /\ \E c \in GenerateCases(vendor) :
          provCall' = [op |-> "generate", args |-> c.params, out |-> generate(c.params, c.net)]
    /\ UNCHANGED <<vendor, hookVars, statusVars, chatVars, delVars, presignVars, otherVars>>

\* aiProvider.query({taskId, mediaType}) against the vendor's task
ProviderQuery ==
    /\ \E c \in QueryCases(vendor) :
          provCall' = [op |-> "query",
                       args |-> [taskId |-> Str("t1"), mediaType |-> c.mediaType,
                                 customStorage |-> c.customStorage],
                       out |-> query(Str("t1"), c.mediaType, c.customStorage, c.net, c.save)]
    /\ UNCHANGED <<vendor, hookVars, statusVars, chatVars, delVars, presignVars, otherVars>>

\* the vendor posts the same task object to the callback url, once
VendorCallback ==
    /\ deliveries = 0
    /\ \E env \in {PlainEnv} \cup StorageEnvs : Deliver(RawObject(vendor), env)
    /\ UNCHANGED <<provVars, chatVars, delVars, presignVars, otherVars>>

NextProvider == ProviderGenerate \/ ProviderQuery \/ VendorCallback

SpecProvider == InitProvider /\ [][NextProvider]_vars

\* C6: a call of generate or query puts at most one request on the wire, and
\* a non-OK answer to it makes the call throw without a second request.
C6_SingleRequestNoRetry ==
    provCall.op \in {"generate", "query"} =>
        /\ Len(provCall.out.fetches) <= 1
        /\ (Len(provCall.out.fetches) >= 1 /\ provCall.out.net.kind = "notOk") =>
              /\ provCall.out.threw
              /\ provCall.out.result = Null
              /\ Len(provCall.out.fetches) = 1

C6_Witness ==
    /\ provCall.op = "generate"
    /\ provCall.out.net.kind = "notOk"
    /\ provCall.out.threw
    /\ Len(provCall.out.fetches) = 1
    /\ provCall.out.fetches[1].path = "/v1/videos/generations"

\* the urls of a media list of a taskInfo, and whether the field is set at all
MediaUrls(field) ==
    IF field.t = "array"
    THEN [present |-> TRUE, urls |-> [i \in DOMAIN field.a |-> field.a[i].url]]
    ELSE [present |-> FALSE, urls |-> <<>>]

\* query's mediaType agrees with payload.type
ConsistentMediaType(mediaType, type) == (mediaType = Str("video")) <=> (type = Str("video"))

\* the webhook and query have both handled the vendor's task object, which
\* maps to "SUCCESS", with custom storage disabled and a consistent mediaType
SamePayloadBothPaths ==
    /\ provCall.op = "query"
    /\ ~provCall.out.threw
    /\ provCall.out.result.taskStatus = "SUCCESS"
    /\ ~provCall.args.customStorage
    /\ ConsistentMediaType(provCall.args.mediaType, vendor.type)
    /\ hookResp.message = "success"
    /\ hookRaw = RawObject(vendor)
    /\ hookEnv.cfg = "false"

\* C7: for one payload that maps to "SUCCESS" (custom storage disabled,
\* mediaType consistent with payload.type) the webhook handler and query
\* derive the same status and the same list of video urls and of image urls,
\* also when the payload has no results field.
C7_HookEqualsQuery ==
    SamePayloadBothPaths =>
        /\ tasks["r1"].status = provCall.out.result.taskStatus
        /\ MediaUrls(tasks["r1"].taskInfo.videos)
             = MediaUrls(provCall.out.result.taskInfo.videos)
        /\ MediaUrls(tasks["r1"].taskInfo.images)
             = MediaUrls(provCall.out.result.taskInfo.images)

\* C17: generate throws without sending a request when mediaType is missing,
\* model is missing, prompt and options are both missing, or mediaType is
\* neither image nor video; otherwise it sends one request, to
\* /v1/videos/generations for video and to /v1/images/generations for image.
C17_InvalidInputSendsNothing ==
    provCall.op = "generate" =>
        LET a == provCall.args
            Missing(v) == v \in {Undefined, Null, Str(""), Str(<<>>)}
            invalid == \/ Missing(a.mediaType)
                       \/ Missing(a.model)
                       \/ (Missing(a.prompt) /\ Missing(a.options))
                       \/ a.mediaType \notin {Str("image"), Str("video")}
            sent == provCall.out.fetches
        IN IF invalid
           THEN provCall.out.threw /\ sent = <<>>
           ELSE /\ Len(sent) = 1
                /\ (sent[1].path = "/v1/videos/generations") <=> (a.mediaType = Str("video"))
                /\ (sent[1].path = "/v1/images/generations") <=> (a.mediaType = Str("image"))

C17_Witness ==
    /\ provCall.op = "generate"
    /\ provCall.args.mediaType = Str("music")
    /\ provCall.args.options # Undefined
    /\ provCall.out.threw
    /\ provCall.out.error = "Unsupported media type"
    /\ provCall.out.fetches = <<>>

\* C18: the request body of generate has a callback_url, equal to the given
\* callbackUrl, exactly when callbackUrl is non-empty, starts with 'https' and
\* contains neither 'localhost' nor '127.0.0.1'.
C18_CallbackUrlOnlyWhenPublicHttps ==
    (provCall.op = "generate" /\ provCall.out.fetches # <<>>) =>
        LET cb == provCall.args.callbackUrl
            body == provCall.out.fetches[1].body
            public == /\ cb.t = "string"
                      /\ Len(cb.s) >= 5
                      /\ SubSeq(cb.s, 1, 5) = <<"h","t","t","p","s">>
                      /\ \A k \in 1..(Len(cb.s) - 8) :
                            /\ SubSeq(cb.s, k, k + 8) # <<"l","o","c","a","l","h","o","s","t">>
                            /\ SubSeq(cb.s, k, k + 8) # <<"1","2","7",".","0",".","0",".","1">>
        IN IF public THEN body.callback_url = cb ELSE body.callback_url = Undefined

C18_Witness ==
    /\ provCall.op = "generate"
    /\ provCall.out.fetches # <<>>
    /\ provCall.args.callbackUrl.t = "string"
    /\ Includes(provCall.args.callbackUrl.s, <<"?","r","=","l","o","c","a","l">>)
    /\ provCall.out.fetches[1].body.callback_url = Undefined

\* C19: a result of query has media only for a completed task: with a mapped
\* status other than SUCCESS neither images nor videos is set; with SUCCESS
\* exactly one of them is set, videos exactly when data.type is 'video' or the
\* requested mediaType is video, and it has one entry per element of
\* data.results (none when results is absent), entry i standing for element i.
C19_MediaOnlyWhenCompleted ==
    (provCall.op = "query" /\ ~provCall.out.threw) =>
        LET r == provCall.out.result
            data == provCall.out.net.data
            results == IF data.results.t = "array" THEN data.results.a ELSE <<>>
            wantVideo == data.type = Str("video") \/ provCall.args.mediaType = Str("video")
            media == IF wantVideo THEN r.taskInfo.videos ELSE r.taskInfo.images
            other == IF wantVideo THEN r.taskInfo.images ELSE r.taskInfo.videos
        IN /\ r.taskStatus = StatusTable(data.status)
           /\ IF r.taskStatus # "SUCCESS"
              THEN r.taskInfo.images = Undefined /\ r.taskInfo.videos = Undefined
              ELSE /\ other = Undefined
                   /\ media.t = "array"
                   /\ Len(media.a) = Len(results)
                   /\ ~provCall.args.customStorage =>
                         \A i \in DOMAIN results : media.a[i].url = results[i]

C19_Witness ==
    /\ provCall.op = "query"
    /\ ~provCall.out.threw
    /\ provCall.out.result.taskStatus = "SUCCESS"
    /\ provCall.args.mediaType = Str("video")
    /\ vendor.type = Str("image")
    /\ vendor.results = Arr(<<Str(""), Str("u2")>>)
    /\ provCall.out.result.taskInfo.images = Undefined
    /\ Len(provCall.out.result.taskInfo.videos.a) = 2

\* the storage step kept the list: as many entries as vendor urls, entry i
\* holding vendor url i or the url of an uploaded file whose index is i (so the
\* vendor url where no uploaded file with a url names i), and no saveFiles
\* call and only vendor urls when custom storage is disabled
StorageStepKeepsList(vendorUrls, list, saves, customStorage) ==
    /\ Len(list) = Len(vendorUrls)
    /\ Len(saves) <= 1
    /\ ~customStorage => saves = <<>>
    /\ \A i \in DOMAIN list :
          \/ list[i].url = vendorUrls[i]
          \/ \E c \in DOMAIN saves :
                /\ saves[c].uploaded.t = "array"
                /\ \E j \in DOMAIN saves[c].uploaded.a :
                      /\ saves[c].uploaded.a[j].index = i - 1
                      /\ saves[c].uploaded.a[j].url \notin {Undefined, Null, Str("")}
                      /\ list[i].url = saves[c].uploaded.a[j].url

\* C20: in the webhook handler and in query the storage step never changes
\* the number or the order of the media entries.
C20_StorageKeepsEntries ==
    /\ (provCall.op = "query" /\ ~provCall.out.threw
          /\ provCall.out.result.taskStatus = "SUCCESS") =>
          LET info == provCall.out.result.taskInfo
              data == provCall.out.net.data
          IN StorageStepKeepsList(
                 IF data.results.t = "array" THEN data.results.a ELSE <<>>,
                 IF info.videos # Undefined THEN info.videos.a ELSE info.images.a,
                 provCall.out.saves, provCall.args.customStorage)
    /\ (hookResp.message = "success" /\ tasks[hookRead].status = "SUCCESS"
          /\ hookRaw.value.results.t = "array") =>
          LET info == tasks[hookRead].taskInfo
          IN StorageStepKeepsList(
                 hookRaw.value.results.a,
                 IF info.videos # Undefined THEN info.videos.a ELSE info.images.a,
                 hookSaves, hookEnv.cfg = "true")

\* query kept the vendor url of the file that came back without a url, and the
\* webhook handler placed the files that came back in reverse order by index
C20_Witness ==
    /\ provCall.op = "query"
    /\ ~provCall.out.threw
    /\ provCall.args.customStorage
    /\ Len(provCall.out.saves) = 1
    /\ provCall.out.saves[1].uploaded.t = "array"
    /\ Len(provCall.out.saves[1].uploaded.a) = 2
    /\ provCall.out.saves[1].uploaded.a[2].url = Undefined
    /\ provCall.out.result.taskInfo.images = Arr(<<[id |-> "", url |-> Str("s0")],
                                                   [id |-> "", url |-> Str("u2")]>>)
    /\ hookResp.message = "success"
    /\ Len(hookSaves) = 1
    /\ hookSaves[1].uploaded.t = "array"
    /\ hookSaves[1].uploaded.a[1].index = 1
    /\ tasks["r1"].taskInfo.images = Arr(<<[id |-> "", url |-> Str("s0")],
                                           [id |-> "", url |-> Str("s1")]>>)

(***************************************************************************)
(* POST /api/chat                                                          *)
(***************************************************************************)
QueryLimit == 50


M_claude == <<"c","l","a","u","d","e","-","s","o","n","n","e","t","-","4">>
M_gemini == <<"g","e","m","i","n","i","-","3","-","p","r","o">>

\* String.prototype.replace(part, '') : the first occurrence removed
RemoveFirst(str, part) ==
    IF Includes(str, part)
    THEN LET k == CHOOSE k \in 0..(Len(str) - Len(part)) :
                    /\ \A i \in DOMAIN part : str[k + i] = part[i]
                    /\ \A j \in 0..(k - 1) : \E i \in DOMAIN part : str[j + i] # part[i]
         IN SubSeq(str, 1, k) \o SubSeq(str, k + Len(part) + 1, Len(str))
    ELSE str

\* JSON.stringify and JSON.parse of message parts
JSONstringify(v) == [t |-> "json", v |-> v]
JSONparse(j) == j.v

\* findChatById(chatId): the row, Null when there is none
findChatById(table, chatId) ==
    IF chatId.t = "string" /\ chatId.s \in DOMAIN table THEN table[chatId.s] ELSE Null

\* getChatMessages({chatId, status, page: 1, limit}): the first `limit` rows of
\* the chat with that status, oldest first
getChatMessages(rows, chatId, status, limit) ==
    LET RECURSIVE Take(_, _)
        Take(i, n) ==
            IF i > Len(rows) \/ n = 0 THEN <<>>
            ELSE IF rows[i].chatId = chatId /\ rows[i].status = status
                 THEN <<rows[i]>> \o Take(i + 1, n - 1)
                 ELSE Take(i + 1, n)
    IN Take(1, limit)

\* generateId().toLowerCase(): an id no stored row has
NewMessageId(rows) == <<"msg", Len(rows) + 1>>

ChatThrow(message, rows, calls) ==
    [threw |-> TRUE, error |-> message, messages |-> rows, llmCalls |-> calls,
     stream |-> Null]

\* catch that answers a thrown error with 400 instead of 500
ChatCatch_BadRequest(message) == [status |-> 400, body |-> message]

\* lines 244-247: new Response(e.message, {status: 500})
ChatCatch(message) == [status |-> 500, body |-> message]

\* lines 131-193: the model client; Null with the error when the key is not set
SelectClient(provider, model, configs) ==
    IF provider = Str("evolink")
    THEN IF ~Truthy(configs.evolink_api_key)
         THEN [error |-> "evolink_api_key is not set", client |-> Null]
         ELSE IF StartsWith(model.s, <<"g","e","m","i","n","i","-">>) \/ StartsWith(model.s, <<"g","p","t","-","5",".">>)
                   \/ StartsWith(model.s, <<"k","i","m","i","-","k","2">>)
              THEN [error |-> "",
                    client |-> [sdk |-> "openai-compatible",
                                apiKey |-> configs.evolink_api_key, model |-> model]]
              ELSE [error |-> "",
                    client |-> [sdk |-> "anthropic",
                                apiKey |-> configs.evolink_api_key, model |-> model]]
    ELSE IF provider = Str("gemini")
    THEN IF ~Truthy(configs.gemini_api_key)
         THEN [error |-> "gemini_api_key is not set", client |-> Null]
         ELSE [error |-> "",
               client |-> [sdk |-> "google", apiKey |-> configs.gemini_api_key,
                           model |-> Str(RemoveFirst(model.s, <<"-","o","f","f","i","c","i","a","l">>))]]
    ELSE IF ~Truthy(configs.openrouter_api_key)
         THEN [error |-> "openrouter_api_key is not set", client |-> Null]
         ELSE [error |-> "",
               client |-> [sdk |-> "openrouter", apiKey |-> configs.openrouter_api_key,
                           model |-> model]]

\* the handler with the user message saved before the session is checked
ChatAuthorized_SignedInOnly(user, chat) == user # Null

\* lines 50-64 passed: signed in, the chat exists and belongs to the caller
ChatAuthorized(user, chat) == user # Null /\ chat # Null /\ chat.userId = user.id

\* lines 22-243: the handler up to the stream response
ChatPOST(req, table, rows, calls) ==
    IF req.fault = "json" THEN ChatThrow("Unexpected end of JSON input", rows, calls)
    ELSE IF ~Truthy(req.chatId) \/ ~Truthy(req.model)
    THEN ChatThrow("invalid params", rows, calls)
    ELSE IF ~Truthy(req.message) \/ ~Truthy(req.message.parts)
              \/ Len(req.message.parts.a) = 0
    THEN ChatThrow("invalid message", rows, calls)
    ELSE LET user == req.user
             chat == findChatById(table, req.chatId)
         IN IF ~ChatAuthorized(user, chat)
            THEN ChatThrow(IF user = Null THEN "no auth, please sign in"
                           ELSE IF chat = Null THEN "chat not found"
                           ELSE "no permission to access this chat", rows, calls)
            ELSE IF req.fault = "configs" THEN ChatThrow("getAllConfigs failed", rows, calls)
            ELSE IF req.fault = "create" THEN ChatThrow("insert failed", rows, calls)
            ELSE
              LET provider == OrElse(req.provider, Str("openrouter"))
                  userMessage == [id |-> NewMessageId(rows), chatId |-> req.chatId,
                                  userId |-> user.id, status |-> "created",
                                  role |-> "user",
                                  parts |-> JSONstringify(req.message.parts),
                                  model |-> req.model, provider |-> provider,
                                  createdAt |-> req.time]
                  saved == Append(rows, userMessage)
                  previousMessages == getChatMessages(saved, req.chatId, "created", QueryLimit)
                  validatedMessages ==
                      [i \in DOMAIN previousMessages |->
                          [id |-> previousMessages[i].id,
                           role |-> previousMessages[i].role,
                           parts |-> JSONparse(previousMessages[i].parts)]]
                  sel == SelectClient(provider, req.model, req.configs)
                  thinking == IF provider = Str("gemini") /\ Includes(req.model.s, <<"g","e","m","i","n","i","-","3">>)
                              THEN OrElse(req.thinkingLevel, Str("low"))
                              ELSE Undefined
              IN IF req.fault = "list" THEN ChatThrow("select failed", saved, calls)
                 ELSE IF sel.error # "" THEN ChatThrow(sel.error, saved, calls)
                 ELSE [threw |-> FALSE, error |-> "", messages |-> saved,
                       llmCalls |-> Append(calls, [client |-> sel.client,
                                                   messages |-> validatedMessages,
                                                   thinkingLevel |-> thinking]),
                       stream |-> [chatId |-> req.chatId, userId |-> user.id,
                                   model |-> req.model, provider |-> provider,
                                   createdAt |-> req.time,
                                   originalMessages |-> validatedMessages]]

(***************************************************************************)
(* Specification SpecChat: one chat request against a stored history, and  *)
(* the end of its response stream                                          *)
(***************************************************************************)
User(id) == [id |-> id]
Sessions == {Null, User("u1"), User("u2")}

\* c1 and c3 belong to u1, c2 to u2; c3 is soft-deleted
InitChats ==
    [c \in {"c1", "c2", "c3"} |->
        [userId |-> IF c = "c2" THEN "u2" ELSE "u1",
         status |-> IF c = "c3" THEN "deleted" ELSE "created",
         updatedAt |-> 0]]

TextParts == Arr(<<[type |-> "text", text |-> "hi"]>>)

\* h earlier messages of chat c1, user and assistant in turn, after one of c2
History(h) ==
    [i \in 1..(h + 1) |->
        [id |-> <<"msg", i>>,
         chatId |-> IF i = 1 THEN Str("c2") ELSE Str("c1"),
         userId |-> IF i = 1 THEN "u2" ELSE "u1",
         status |-> "created",
         role |-> IF i % 2 = 0 THEN "user" ELSE "assistant",
         parts |-> JSONstringify(TextParts),
         model |-> Str(M_claude), provider |-> Str("openrouter"),
         createdAt |-> 0]]


Configs(evolink, gemini, openrouter) ==
    [evolink_api_key |-> evolink, gemini_api_key |-> gemini, openrouter_api_key |-> openrouter]

AllKeys == Configs(Str("ek"), Str("gk"), Str("ok"))

ChatRequest(fault, chatId, model, message, provider, user, configs, thinkingLevel) ==
    [fault |-> fault, chatId |-> chatId, model |-> model, message |-> message,
     provider |-> provider, user |-> user, configs |-> configs,
     thinkingLevel |-> thinkingLevel, time |-> 1]


ChatRequests ==
    { ChatRequest("none", c, m, msg, Undefined, u, AllKeys, Undefined) :
        c \in {Undefined, Str(""), Str("c1"), Str("c2"), Str("c3"), Str("c9")},
        m \in {Undefined, Str(M_claude)},
        msg \in {Undefined, [t |-> "object", parts |-> Undefined], [t |-> "object", parts |-> Arr(<<>>)], [t |-> "object", parts |-> TextParts]},
        u \in Sessions }
      \cup
    { ChatRequest("none", Str("c1"), Str(m), [t |-> "object", parts |-> TextParts], pr, User("u1"), k, Undefined) :
        m \in {M_claude, M_gemini, <<"g","e","m","i","n","i","-","3","-","p","r","o","-","o","f","f","i","c","i","a","l">>, <<"g","e","m","i","n","i","-","2",".","5","-","f","l","a","s","h","-","o","f","f","i","c","i","a","l">>, <<"g","p","t","-","5",".","2">>, <<"g","p","t","-","5">>, <<"k","i","m","i","-","k","2","-","t","h","i","n","k","i","n","g">>, <<"g","-","o","f","f","i","c","i","a","l","-","3">>, <<"g","-","o","f","f","i","c","i","a","l","-","3","-","o","f","f","i","c","i","a","l">>},
        pr \in {Undefined, Str("evolink"), Str("gemini"), Str("openrouter"), Str("kie")},
        k \in { AllKeys, Configs(Undefined, Undefined, Undefined), Configs(Str(""), Str("gk"), Str("ok")), Configs(Str("ek"), Undefined, Str("ok")), Configs(Str("ek"), Str("gk"), Undefined) } }
      \cup
    { ChatRequest(f, Str("c1"), Str(M_gemini), [t |-> "object", parts |-> TextParts], Str("gemini"), u,
                  AllKeys, Str("high")) :
        f \in {"none", "json", "configs", "create", "list"}, u \in {Null, User("u1")} }

InitChat ==
    /\ chats = InitChats
    /\ \E h \in {0, 1, QueryLimit - 1, QueryLimit} : messages = History(h)
    /\ llmCalls = <<>>
    /\ stream = Null
    /\ chatReq = Null
    /\ chatResp = NoResp
    /\ chatThrown = ""
    /\ streamEnd = Null
    /\ delReq = Null
    /\ delResp = NoResp
    /\ now = 1
    /\ PresignIdle
    /\ HookIdle
    /\ StatusIdle
    /\ ProvIdle
    /\ OtherIdle

\* POST /api/chat, from the request to the response
HandleChat(req) ==
    /\ chatReq = Null
    /\ \E o \in {ChatPOST(req, chats, messages, llmCalls)} :
          /\ messages' = o.messages
          /\ llmCalls' = o.llmCalls
          /\ stream' = o.stream
          /\ chatThrown' = o.error
          /\ streamEnd' = streamEnd
          /\ chatResp' = IF o.threw THEN ChatCatch(o.error)
                         ELSE [status |-> 200, body |-> "stream"]
    /\ chatReq' = req
    /\ UNCHANGED <<delVars, presignVars, hookVars, statusVars, provVars, otherVars>>

\* onFinish that stores the last message whatever its role
SavesAssistant_AnyRole(lastMessage) == TRUE

\* line 227: lastMessage.role === 'assistant'
SavesAssistant(lastMessage) == lastMessage.role = "assistant"

\* lines 225-242: onFinish({messages}); the stream ends with an assistant
\* message appended to originalMessages, or with nothing appended
StreamFinish(appended) ==
    /\ stream # Null
    /\ LET lastMessage ==
               IF appended THEN [role |-> "assistant", parts |-> TextParts]
               ELSE stream.originalMessages[Len(stream.originalMessages)]
       IN /\ messages' =
               IF SavesAssistant(lastMessage)
               THEN Append(messages,
                           [id |-> NewMessageId(messages), chatId |-> stream.chatId,
                            userId |-> stream.userId, status |-> "created",
                            role |-> "assistant",
                            parts |-> JSONstringify(lastMessage.parts),
                            model |-> stream.model, provider |-> stream.provider,
                            createdAt |-> stream.createdAt])
               ELSE messages
          /\ streamEnd' = [role |-> lastMessage.role, parts |-> lastMessage.parts]
    /\ stream' = Null
    /\ UNCHANGED <<llmCalls, chatReq, chatResp, chatThrown>>
    /\ UNCHANGED <<delVars, presignVars, hookVars, statusVars, provVars, otherVars>>

NextChat ==
    \/ \E req \in ChatRequests : HandleChat(req)
    \/ \E appended \in BOOLEAN : StreamFinish(appended)

SpecChat == InitChat /\ [][NextChat]_vars

\* the api key the provider named in the request needs
KeyNeeded(req) ==
    IF req.provider = Str("evolink") THEN req.configs.evolink_api_key
    ELSE IF req.provider = Str("gemini") THEN req.configs.gemini_api_key
    ELSE req.configs.openrouter_api_key

\* a failure the claim lists occurs in the request
ListedFailure(req) ==
    \/ req.fault # "none"
    \/ ~Truthy(req.chatId)
    \/ ~Truthy(req.model)
    \/ ~Truthy(req.message)
    \/ ~Truthy(req.message.parts)
    \/ req.message.parts.a = <<>>
    \/ req.user = Null
    \/ req.chatId.s \notin DOMAIN chats
    \/ chats[req.chatId.s].userId # req.user.id
    \/ ~Truthy(KeyNeeded(req))

\* C5: every failure before the stream response exists is answered with
\* HTTP 500 and the error's message as body; the handler answers with no
\* status other than that 500 and the stream's 200.
C5_ChatFailuresAre500 ==
    chatReq # Null =>
        /\ chatResp.status \in {200, 500}
        /\ ListedFailure(chatReq) =>
              /\ chatResp.status = 500
              /\ chatThrown # ""
              /\ chatResp.body = chatThrown
              /\ llmCalls = <<>>
        /\ chatResp.status = 500 => ListedFailure(chatReq)

C5_Witness ==
    /\ chatReq # Null
    /\ chatResp.status = 500
    /\ chatResp.body = "evolink_api_key is not set"

\* the caller of the request is signed in and owns the chat it names
CallerOwnsChat(req) ==
    /\ req.user # Null
    /\ req.chatId.t = "string"
    /\ req.chatId.s \in DOMAIN chats
    /\ chats[req.chatId.s].userId = req.user.id

\* C8: a chat request creates message rows and calls the model only when the
\* caller is signed in and owns the existing chat named by chatId; any other
\* request creates no row and makes no model call, and the row written when
\* the stream ends belongs to such a request.
C8_OnlyOwnerChats ==
    [][ /\ chatReq' # chatReq =>
              \/ CallerOwnsChat(chatReq')
              \/ (messages' = messages /\ llmCalls' = llmCalls /\ stream' = Null)
        /\ (chatReq' = chatReq /\ messages' # messages) =>
              /\ CallerOwnsChat(chatReq)
              /\ llmCalls' = llmCalls ]_vars

C8_Witness ==
    /\ chatReq # Null
    /\ chatReq.user = User("u1")
    /\ chatResp.status = 200
    /\ Len(llmCalls) = 1
    /\ Len(messages) = 4
    /\ messages[3].role = "user"
    /\ messages[4].role = "assistant"
    /\ messages[4].userId = "u1"

\* C21: the message list sent to the language model contains the user
\* message this request has just saved, as its last element, whatever the
\* number of messages the chat already holds.
C21_SavedMessageIsSentLast ==
    stream # Null =>
        LET sent == llmCalls[Len(llmCalls)].messages
        IN /\ Len(sent) > 0
           /\ sent[Len(sent)].id = messages[Len(messages)].id
           /\ sent[Len(sent)].role = "user"

\* C22: a chat request answered with HTTP 500 has created no chat message
\* row; the stored messages are what they were before the request.
C22_FailedRequestSavesNothing ==
    [][ (chatReq' # chatReq /\ chatResp'.status = 500) => messages' = messages ]_vars

\* C23: the model stream of a request is started only with the request's user
\* message persisted; an assistant message is persisted only in a later step,
\* when the stream finishes, and only if the last message of the finished
\* stream has role "assistant"; the assistant row carries the chatId, userId,
\* model and provider of the user row of that request.
C23_UserRowThenAssistantRow ==
    [][ /\ llmCalls' # llmCalls =>
              /\ Len(messages') = Len(messages) + 1
              /\ SubSeq(messages', 1, Len(messages)) = messages
              /\ messages'[Len(messages')].role = "user"
              /\ messages'[Len(messages')].chatId = chatReq'.chatId
              /\ messages'[Len(messages')].userId = chatReq'.user.id
              /\ stream' # Null
              /\ streamEnd' = Null
        /\ (chatReq' # chatReq /\ chatReq'.fault = "create") =>
              (llmCalls' = llmCalls /\ stream' = Null)
        /\ (stream' # stream /\ stream' # Null) => llmCalls' # llmCalls
        /\ (messages' # messages /\ messages'[Len(messages')].role = "assistant") =>
              /\ llmCalls' = llmCalls
              /\ Len(llmCalls) = 1
              /\ stream # Null
              /\ stream' = Null
              /\ streamEnd'.role = "assistant"
              /\ messages' = Append(messages, messages'[Len(messages')])
              /\ messages[Len(messages)].role = "user"
              /\ messages[Len(messages)].userId = chatReq.user.id
              /\ LET userRow == messages[Len(messages)]
                     assistantRow == messages'[Len(messages')]
                 IN /\ assistantRow.chatId = userRow.chatId
                    /\ assistantRow.userId = userRow.userId
                    /\ assistantRow.model = userRow.model
                    /\ assistantRow.provider = userRow.provider
                    /\ assistantRow.parts = JSONstringify(streamEnd'.parts)
        /\ (stream # Null /\ stream' = Null /\ messages' = messages) =>
              streamEnd'.role # "assistant" ]_vars

C23_Witness ==
    /\ chatReq # Null
    /\ chatReq.provider = Str("evolink")
    /\ stream = Null
    /\ streamEnd # Null
    /\ streamEnd.role = "assistant"
    /\ Len(llmCalls) = 1
    /\ Len(messages) = 4
    /\ messages[3].role = "user"
    /\ messages[3].provider = Str("evolink")
    /\ messages[4].role = "assistant"
    /\ messages[4].provider = Str("evolink")
    /\ messages[4].model = messages[3].model

\* the request passes every check before the user message is saved
PassesChecks(req) ==
    /\ req.fault = "none"
    /\ Truthy(req.chatId)
    /\ Truthy(req.model)
    /\ Truthy(req.message)
    /\ Truthy(req.message.parts)
    /\ req.message.parts.a # <<>>
    /\ CallerOwnsChat(req)

\* the sdk and the api key the decision table gives for the request
TableClient(req) ==
    LET provider == IF req.provider = Undefined THEN Str("openrouter") ELSE req.provider
    IN IF provider = Str("evolink")
       THEN [sdk |-> IF \/ StartsWith(req.model.s, <<"g","e","m","i","n","i","-">>)
                        \/ StartsWith(req.model.s, <<"g","p","t","-","5",".">>)
                        \/ StartsWith(req.model.s, <<"k","i","m","i","-","k","2">>)
                     THEN "openai-compatible" ELSE "anthropic",
             apiKey |-> req.configs.evolink_api_key]
       ELSE IF provider = Str("gemini")
       THEN [sdk |-> "google", apiKey |-> req.configs.gemini_api_key]
       ELSE [sdk |-> "openrouter", apiKey |-> req.configs.openrouter_api_key]

\* the model name without its '-official' suffix
WithoutOfficialSuffix(name) ==
    LET suffix == <<"-","o","f","f","i","c","i","a","l">>
        n == Len(name) - Len(suffix)
    IN IF n >= 0 /\ SubSeq(name, n + 1, Len(name)) = suffix
       THEN SubSeq(name, 1, n)
       ELSE name

\* the rows of the decision table about the client and the api key
TableClientAndKey ==
    (chatReq # Null /\ PassesChecks(chatReq)) =>
        LET table == TableClient(chatReq)
        IN /\ messages[Len(messages)].provider =
                 (IF chatReq.provider = Undefined THEN Str("openrouter") ELSE chatReq.provider)
           /\ ~Truthy(table.apiKey) => (chatResp.status = 500 /\ llmCalls = <<>>)
           /\ Truthy(table.apiKey) =>
                 /\ chatResp.status = 200
                 /\ Len(llmCalls) = 1
                 /\ llmCalls[1].client.sdk = table.sdk
                 /\ llmCalls[1].client.apiKey = table.apiKey
                 /\ table.sdk # "google" => llmCalls[1].client.model = chatReq.model

\* C24: the model client follows the decision table: no provider means
\* openrouter; evolink uses the OpenAI-compatible client for model names that
\* start with 'gemini-', 'gpt-5.' or 'kimi-k2' and the Anthropic client
\* otherwise; gemini uses the Google client with the '-official' suffix
\* removed from the model name; any other provider uses OpenRouter; and
\* without the selected provider's api key the request fails with no model
\* call.
C24_ClientDecisionTable ==
    /\ TableClientAndKey
    /\ (chatReq # Null /\ Len(llmCalls) = 1 /\ llmCalls[1].client.sdk = "google") =>
          llmCalls[1].client.model = Str(WithoutOfficialSuffix(chatReq.model.s))

(***************************************************************************)
(* The chat delete handler                                                *)
(***************************************************************************)
MaxClock == 3

\* updateChat(chatId, {status, updatedAt}): sets the two columns of the row
updateChat(table, chatId, status, updatedAt) ==
    [table EXCEPT ![chatId] = [@ EXCEPT !.status = status, !.updatedAt = updatedAt]]

\* a handler that forgets the permission check
DeleteForbidden_Never(chat, user) == FALSE

\* lines 35-41: the chat is not the caller's
DeleteForbidden(chat, user) == chat.userId # user.id

\* lines 6-60: the response and the chat table after the request
DeletePOST(req, table, time) ==
    IF req.fault = "json"
    THEN [resp |-> [status |-> 500, code |-> 500, message |-> "Unexpected end of JSON input"], chats |-> table]
    ELSE IF ~Truthy(req.chatId)
    THEN [resp |-> [status |-> 400, code |-> 400, message |-> "chatId is required"], chats |-> table]
    ELSE IF req.user = Null
    THEN [resp |-> [status |-> 401, code |-> 401, message |-> "no auth, please sign in"], chats |-> table]
    ELSE LET chat == findChatById(table, req.chatId)
         IN IF chat = Null
            THEN [resp |-> [status |-> 404, code |-> 404, message |-> "chat not found"], chats |-> table]
            ELSE IF DeleteForbidden(chat, req.user)
            THEN [resp |-> [status |-> 403, code |-> 403, message |-> "no permission to delete this chat"],
                  chats |-> table]
            ELSE IF req.fault = "update"
            THEN [resp |-> [status |-> 500, code |-> 500, message |-> "update failed"], chats |-> table]
            ELSE [resp |-> [status |-> 200, code |-> 0, message |-> "chat deleted successfully"],
                  chats |-> updateChat(table, req.chatId.s, "deleted", time)]

DeleteRequests ==
    { [fault |-> f, chatId |-> c, user |-> u] :
        f \in {"none", "json", "update"},
        c \in {Undefined, Str(""), Str("c1"), Str("c2"), Str("c3"), Str("c9")},
        u \in Sessions }

InitChatDelete ==
    /\ chats = InitChats
    /\ delReq = Null
    /\ delResp = NoResp
    /\ now = 1
    /\ messages = <<>>
    /\ llmCalls = <<>>
    /\ stream = Null
    /\ chatReq = Null
    /\ chatResp = NoResp
    /\ chatThrown = ""
    /\ streamEnd = Null
    /\ PresignIdle
    /\ HookIdle
    /\ StatusIdle
    /\ ProvIdle
    /\ OtherIdle

\* the delete handler, from the request to the response, at time now
HandleDelete(req) ==
    /\ now <= MaxClock
    /\ \E o \in {DeletePOST(req, chats, now)} :
          /\ chats' = o.chats
          /\ delResp' = o.resp
    /\ delReq' = req
    /\ now' = now + 1
    /\ UNCHANGED <<chatVars, presignVars, hookVars, statusVars, provVars, otherVars>>

NextChatDelete == \E req \in DeleteRequests : HandleDelete(req)

SpecChatDelete == InitChatDelete /\ [][NextChatDelete]_vars

\* C9: the delete handler changes a chat only for a signed-in caller who owns
\* it, and then the row is kept with its owner and gets status "deleted"; the
\* checks answer in the order missing chatId 400, not signed in 401, chat
\* not found 404, not owner 403, and a rejected request changes no chat.
C9_DeleteChecksInOrder ==
    [][ now' # now =>
          LET req == delReq'
              parsed == req.fault # "json"
              hasId == parsed /\ Truthy(req.chatId)
              signedIn == hasId /\ req.user # Null
              found == signedIn /\ req.chatId.s \in DOMAIN chats
          IN /\ (parsed /\ ~hasId) => delResp'.status = 400
             /\ (hasId /\ ~signedIn) => delResp'.status = 401
             /\ (signedIn /\ ~found) => delResp'.status = 404
             /\ (found /\ chats[req.chatId.s].userId # req.user.id) => delResp'.status = 403
             /\ delResp'.status \in {400, 401, 403, 404} => chats' = chats
             /\ chats' # chats =>
                  /\ found
                  /\ chats[req.chatId.s].userId = req.user.id
                  /\ DOMAIN chats' = DOMAIN chats
                  /\ chats'[req.chatId.s].status = "deleted"
                  /\ chats'[req.chatId.s].userId = chats[req.chatId.s].userId
                  /\ \A c \in DOMAIN chats \ {req.chatId.s} : chats'[c] = chats[c] ]_vars

C9_Witness ==
    /\ delResp.status = 403
    /\ delReq.chatId = Str("c2")
    /\ delReq.user = User("u1")
    /\ chats["c2"].status = "created"
    /\ chats["c1"].status = "deleted"
    /\ chats["c1"].userId = "u1"

(***************************************************************************)
(* The presigned-URL handler                                               *)
(***************************************************************************)
\* respErr(message) and respData(data) of @/shared/lib/resp
respErr(message) == [code |-> -1, message |-> message, data |-> Undefined]
respData(data) == [code |-> 0, message |-> "ok", data |-> data]

\* filename.split('.').pop(): what follows the last dot, the whole name without one
LastSegment(name) ==
    LET dots == {i \in DOMAIN name : name[i] = "."}
    IN IF dots = {} THEN name
       ELSE SubSeq(name, (CHOOSE i \in dots : \A j \in dots : j <= i) + 1, Len(name))

\* publicDomain.replace(/\/$/, '')
StripTrailingSlash(str) ==
    IF Len(str) > 0 /\ str[Len(str)] = "/" THEN SubSeq(str, 1, Len(str) - 1) ELSE str


\* a check that forgets the bucket name
StorageConfigured_NoBucket(configs) ==
    Truthy(configs.r2_access_key) /\ Truthy(configs.r2_secret_key)

\* lines 189-193 negated: the three R2 settings are set
StorageConfigured(configs) ==
    /\ Truthy(configs.r2_access_key)
    /\ Truthy(configs.r2_secret_key)
    /\ Truthy(configs.r2_bucket_name)

\* lines 178-248
PresignPOST(req) ==
    IF req.fault = "json" THEN respErr("Failed to generate presigned URL")
    ELSE IF ~Truthy(req.filename) THEN respErr("Filename is required")
    ELSE IF req.fault = "configs" THEN respErr("Failed to generate presigned URL")
    ELSE IF ~StorageConfigured(req.configs) THEN respErr("Storage not configured")
    ELSE LET configs == req.configs
             accountId == OrElse(configs.r2_account_id, Str(<<>>))
             endpoint == IF Truthy(configs.r2_endpoint) THEN configs.r2_endpoint
                         ELSE Str(<<"h","t","t","p","s",":","/","/">> \o accountId.s \o <<".","r","2",".","c","l","o","u","d","f","l","a","r","e","s","t","o","r","a","g","e",".","c","o","m">>)
             seg == LastSegment(req.filename.s)
             ext == IF seg = <<>> THEN <<"b","i","n">> ELSE seg
             uploadPath == OrElse(configs.r2_upload_path, Str(<<>>))
             key == [prefix |-> IF uploadPath.s # <<>> THEN uploadPath.s \o <<"/">> ELSE <<>>,
                     dir |-> "chat/", time |-> req.time, uuid |-> req.uuid, ext |-> ext]
             command == [Bucket |-> configs.r2_bucket_name, Key |-> key,
                         ContentType |-> OrElse(req.contentType,
                                                Str(<<"a","p","p","l","i","c","a","t","i","o","n","/","o","c","t","e","t","-","s","t","r","e","a","m">>))]
             presignedUrl == [endpoint |-> endpoint, command |-> command,
                              accessKeyId |-> configs.r2_access_key, expiresIn |-> 600]
             publicUrl == IF Truthy(configs.r2_domain)
                          THEN [base |-> StripTrailingSlash(configs.r2_domain.s),
                                bucket |-> Undefined, key |-> key]
                          ELSE [base |-> endpoint.s, bucket |-> configs.r2_bucket_name,
                                key |-> key]
         IN IF req.fault = "sign" THEN respErr("Failed to generate presigned URL")
            ELSE respData([presignedUrl |-> presignedUrl, publicUrl |-> publicUrl,
                           key |-> key])

R2Configs(access, secret, bucket, domain, uploadPath) ==
    [r2_access_key |-> access, r2_secret_key |-> secret, r2_bucket_name |-> bucket,
     r2_account_id |-> Str(<<"a","c","c","t">>), r2_endpoint |-> Undefined,
     r2_domain |-> domain, r2_upload_path |-> uploadPath]


PresignRequests ==
    { [fault |-> f, filename |-> fn, contentType |-> ct, time |-> 7, uuid |-> "uuid-1",
       configs |-> R2Configs(ak, sk, bn, dm, up)] :
        f \in {"none", "json", "configs", "sign"},
        fn \in {Undefined, Str(<<>>), Str(<<"a",".","p","n","g">>), Str(<<"n","o","e","x","t">>), Str(<<"x",".">>), Str(<<"a",".","b",".","m","p","4">>)},
        ct \in {Undefined, Str(<<"i","m","a","g","e","/","p","n","g">>)},
        ak \in {Undefined, Str(<<"A","K">>)},
        sk \in {Str(<<>>), Str(<<"S","K">>)},
        bn \in {Undefined, Str(<<"b","u","c","k","e","t">>)},
        dm \in {Undefined, Str(<<"h","t","t","p","s",":","/","/","c","d","n",".","x","/">>)},
        up \in {Undefined, Str(<<"u","p">>)} }

InitPresign == ChatIdle /\ HookIdle /\ StatusIdle /\ ProvIdle /\ OtherIdle

\* the presigned-URL handler, from the request to the response
HandlePresign(req) ==
    /\ presignReq = Null
    /\ presignReq' = req
    /\ presignResp' = PresignPOST(req)
    /\ UNCHANGED <<chatVars, delVars, hookVars, statusVars, provVars, otherVars>>

NextPresign == \E req \in PresignRequests : HandlePresign(req)

SpecPresign == InitPresign /\ [][NextPresign]_vars

\* the response carries a presigned url, a public url or a key
IssuesUrl(resp) == resp.data # Undefined

\* C10: a presigned url is issued only for a request with a filename under a
\* configuration with r2_access_key, r2_secret_key and r2_bucket_name set; a
\* missing filename is answered 'Filename is required', a missing setting
\* 'Storage not configured', and neither answer carries a url or a key.
C10_PresignNeedsFilenameAndConfig ==
    presignReq # Null =>
        /\ IssuesUrl(presignResp) =>
              /\ Truthy(presignReq.filename)
              /\ Truthy(presignReq.configs.r2_access_key)
              /\ Truthy(presignReq.configs.r2_secret_key)
              /\ Truthy(presignReq.configs.r2_bucket_name)
        /\ (presignReq.fault # "json" /\ ~Truthy(presignReq.filename)) =>
              /\ presignResp.message = "Filename is required"
              /\ ~IssuesUrl(presignResp)
        /\ (presignReq.fault \in {"none", "sign"} /\ Truthy(presignReq.filename)
              /\ (\/ ~Truthy(presignReq.configs.r2_access_key)
                  \/ ~Truthy(presignReq.configs.r2_secret_key)
                  \/ ~Truthy(presignReq.configs.r2_bucket_name))) =>
              /\ presignResp.message = "Storage not configured"
              /\ ~IssuesUrl(presignResp)

C10_Witness ==
    /\ presignReq # Null
    /\ presignReq.filename = Str(<<"a",".","p","n","g">>)
    /\ presignReq.configs.r2_bucket_name = Undefined
    /\ presignReq.configs.r2_access_key # Undefined
    /\ presignReq.configs.r2_secret_key = Str(<<"S","K">>)
    /\ presignResp.message = "Storage not configured"

(***************************************************************************)
(* getAIManagerWithConfigs: the AIManager built from the configs.  A       *)
(* manager holds the list of its providers in the order of registration.   *)
(***************************************************************************)
\* AIManager.addProvider(provider): the provider joins the manager's list
addProvider(mgr, provider) == [mgr EXCEPT !.providers = Append(@, provider)]

\* the comparison with a truthiness test in place of === 'true'
IsTrueString_Truthy(v) == [t |-> "boolean", b |-> Truthy(v)]

\* configs.x_custom_storage === 'true'
IsTrueString(v) == [t |-> "boolean", b |-> v = Str("true")]

\* lines 14-63; a provider is the options object its constructor was given
getAIManagerWithConfigs(configs) ==
    LET m0 == [t |-> "object", providers |-> <<>>]
        m1 == IF Truthy(configs.kie_api_key)
              THEN addProvider(m0, [name |-> "kie", apiKey |-> configs.kie_api_key,
                                    baseUrl |-> Undefined,
                                    customStorage |-> IsTrueString(configs.kie_custom_storage)])
              ELSE m0
        m2 == IF Truthy(configs.replicate_api_token)
              THEN addProvider(m1, [name |-> "replicate",
                                    apiKey |-> configs.replicate_api_token,
                                    baseUrl |-> Undefined,
                                    customStorage |->
                                        IsTrueString(configs.replicate_custom_storage)])
              ELSE m1
        m3 == IF Truthy(configs.fal_api_key)
              THEN addProvider(m2, [name |-> "fal", apiKey |-> configs.fal_api_key,
                                    baseUrl |-> Undefined,
                                    customStorage |-> IsTrueString(configs.fal_custom_storage)])
              ELSE m2
        m4 == IF Truthy(configs.gemini_api_key)
              THEN addProvider(m3, [name |-> "gemini", apiKey |-> configs.gemini_api_key,
                                    baseUrl |-> Undefined, customStorage |-> Undefined])
              ELSE m3
    IN IF Truthy(configs.evolink_api_key)
       THEN addProvider(m4, [name |-> "evolink", apiKey |-> configs.evolink_api_key,
                             baseUrl |-> OrElse(configs.evolink_base_url, Undefined),
                             customStorage |->
                                 IsTrueString(configs.evolink_custom_storage)])
       ELSE m4

(***************************************************************************)
(* Specification SpecManager: getAIManagerWithConfigs on one Configs       *)
(* object.  A credential is unset, empty or set; a *_custom_storage        *)
(* setting is unset, 'true', 'false' or (kie, evolink) 'TRUE'.             *)
(***************************************************************************)
InitManager ==
    /\ mgrConfigs \in
         [t : {"object"},
          kie_api_key : {Undefined, Str(""), Str("k1")},
          replicate_api_token : {Undefined, Str(""), Str("k2")},
          fal_api_key : {Undefined, Str(""), Str("k3")},
          gemini_api_key : {Undefined, Str(""), Str("k4")},
          evolink_api_key : {Undefined, Str(""), Str("k5")},
          kie_custom_storage : {Undefined, Str("true"), Str("false"), Str("TRUE")},
          replicate_custom_storage : {Undefined, Str("true"), Str("false")},
          fal_custom_storage : {Undefined, Str("true"), Str("false")},
          evolink_custom_storage : {Undefined, Str("true"), Str("false"), Str("TRUE")},
          evolink_base_url : {Str(""), Str("https://api.evolink.test")}]
    /\ manager = Null
    /\ aiService = Null
    /\ svcCalls = <<>>
    /\ upload = Null /\ storageLog = <<>> /\ hookProcs = <<>> /\ admin = Null
    /\ HookIdle /\ StatusIdle /\ ProvIdle /\ ChatIdle

BuildManager ==
    /\ manager = Null
    /\ manager' = getAIManagerWithConfigs(mgrConfigs)
    /\ UNCHANGED <<mgrConfigs, aiService, svcCalls, uploadVars, hookProcs, admin>>
    /\ UNCHANGED <<statusVars, hookVars, provVars, chatVars, delVars, presignVars>>

NextManager == BuildManager

SpecManager == InitManager /\ [][NextManager]_vars

\* C11: the manager holds, in the order kie, replicate, fal, gemini, evolink
\* and once each, exactly the providers whose credential config is non-empty;
\* the customStorage flag of kie, replicate, fal and evolink is true exactly
\* when the provider's *_custom_storage config is the string 'true', and the
\* gemini provider, which has no such config, is never flagged.
C11_ProvidersFollowConfigs ==
    manager # Null =>
        LET Order == <<"kie", "replicate", "fal", "gemini", "evolink">>
            Credential == [kie |-> mgrConfigs.kie_api_key,
                           replicate |-> mgrConfigs.replicate_api_token,
                           fal |-> mgrConfigs.fal_api_key,
                           gemini |-> mgrConfigs.gemini_api_key,
                           evolink |-> mgrConfigs.evolink_api_key]
            Storage == [kie |-> mgrConfigs.kie_custom_storage,
                        replicate |-> mgrConfigs.replicate_custom_storage,
                        fal |-> mgrConfigs.fal_custom_storage,
                        gemini |-> Undefined,
                        evolink |-> mgrConfigs.evolink_custom_storage]
            Set(n) == Credential[n].t = "string" /\ Credential[n].s # ""
            ps == manager.providers
        IN /\ [i \in DOMAIN ps |-> ps[i].name] = SelectSeq(Order, Set)
           /\ \A i \in DOMAIN ps :
                 (ps[i].customStorage = [t |-> "boolean", b |-> TRUE])
                     <=> (Storage[ps[i].name] = Str("true"))

C11_Witness ==
    /\ manager # Null
    /\ Len(manager.providers) = 3
    /\ manager.providers[1].name = "kie"
    /\ manager.providers[1].customStorage = [t |-> "boolean", b |-> FALSE]
    /\ manager.providers[2].name = "gemini"
    /\ manager.providers[3].name = "evolink"
    /\ manager.providers[3].customStorage = [t |-> "boolean", b |-> TRUE]
    /\ mgrConfigs.kie_custom_storage = Str("TRUE")
    /\ mgrConfigs.fal_api_key = Str("")

(***************************************************************************)
(* getAIService and the module-level variable aiService.  An AIManager     *)
(* object is told from every other by the call that constructed it.        *)
(***************************************************************************)
\* getAllConfigs(): the configs stored in the database
getAllConfigs ==
    [t |-> "object", kie_api_key |-> Undefined, replicate_api_token |-> Undefined,
     fal_api_key |-> Undefined, gemini_api_key |-> Str("k4"),
     evolink_api_key |-> Undefined, kie_custom_storage |-> Undefined,
     replicate_custom_storage |-> Undefined, fal_custom_storage |-> Undefined,
     evolink_custom_storage |-> Undefined, evolink_base_url |-> Undefined]

\* a service that hands out the manager it already holds
ServiceManager_Cached(shared, built) == IF shared # Null THEN shared ELSE built

\* lines 77-79: aiService = getAIManagerWithConfigs(configs); return aiService,
\* with no await in between
ServiceManager(shared, built) == built

(***************************************************************************)
(* Specification SpecService: ServiceCalls concurrent calls of             *)
(* getAIService, with configs of their own or without                      *)
(***************************************************************************)
ServiceCalls == 3

InitService ==
    /\ svcCalls \in
         [1..ServiceCalls ->
            { [pc |-> "called", configs |-> cfg, used |-> Null, result |-> Null] :
                cfg \in { Undefined,
                          [getAllConfigs EXCEPT !.gemini_api_key = Undefined,
                                                !.evolink_api_key = Str("k5"),
                                                !.evolink_custom_storage = Str("true")],
                          [getAllConfigs EXCEPT !.kie_api_key = Str("k1")],
                          [getAllConfigs EXCEPT !.gemini_api_key = Str("")] } }]
    /\ aiService = Null
    /\ mgrConfigs = Null
    /\ manager = Null
    /\ upload = Null /\ storageLog = <<>> /\ hookProcs = <<>> /\ admin = Null
    /\ HookIdle /\ StatusIdle /\ ProvIdle /\ ChatIdle

\* lines 74-79 of call c from the point where its configs are at hand
ServiceBuild(c, configs) ==
    LET built == [t |-> "object", builtBy |-> c,
                  manager |-> getAIManagerWithConfigs(configs)]
        mgr == ServiceManager(aiService, built)
    IN /\ aiService' = mgr
       /\ svcCalls' = [svcCalls EXCEPT ![c] = [@ EXCEPT !.pc = "returned",
                                                        !.used = configs,
                                                        !.result = mgr]]

\* call c starts: with configs it runs to its return, without it waits for
\* getAllConfigs()
ServiceCall(c) ==
    /\ svcCalls[c].pc = "called"
    /\ IF Truthy(svcCalls[c].configs)
       THEN ServiceBuild(c, svcCalls[c].configs)
       ELSE /\ svcCalls' = [svcCalls EXCEPT ![c] = [@ EXCEPT !.pc = "awaiting"]]
            /\ UNCHANGED aiService
    /\ UNCHANGED <<mgrConfigs, manager, uploadVars, hookProcs, admin>>
    /\ UNCHANGED <<statusVars, hookVars, provVars, chatVars, delVars, presignVars>>

\* getAllConfigs() settles for call c: with the stored configs, or rejected
ServiceResume(c, ok) ==
    /\ svcCalls[c].pc = "awaiting"
    /\ IF ok
       THEN ServiceBuild(c, getAllConfigs)
       ELSE /\ svcCalls' = [svcCalls EXCEPT ![c] = [@ EXCEPT !.pc = "rejected"]]
            /\ UNCHANGED aiService
    /\ UNCHANGED <<mgrConfigs, manager, uploadVars, hookProcs, admin>>
    /\ UNCHANGED <<statusVars, hookVars, provVars, chatVars, delVars, presignVars>>

NextService ==
    \E c \in 1..ServiceCalls :
        \/ ServiceCall(c)
        \/ \E ok \in BOOLEAN : ServiceResume(c, ok)

SpecService == InitService /\ [][NextService]_vars

\* C16: a call that has returned holds a manager constructed by that very
\* call (so never one cached from another call) from the configs of that call:
\* the configs it was given, or the stored ones when it was given none; and
\* aiService holds the manager of one of the calls that returned.
C16_OwnFreshManager ==
    /\ \A c \in DOMAIN svcCalls :
          svcCalls[c].pc = "returned" =>
              /\ svcCalls[c].result.builtBy = c
              /\ svcCalls[c].used = IF Truthy(svcCalls[c].configs) THEN svcCalls[c].configs
                                    ELSE getAllConfigs
              /\ svcCalls[c].result.manager = getAIManagerWithConfigs(svcCalls[c].used)
    /\ aiService # Null =>
          \E c \in DOMAIN svcCalls :
              svcCalls[c].pc = "returned" /\ svcCalls[c].result = aiService

\* call 1 waited for the stored configs while call 2 ran, and returned last
C16_Witness ==
    /\ svcCalls # <<>>
    /\ svcCalls[1].pc = "returned" /\ svcCalls[2].pc = "returned"
    /\ svcCalls[1].configs = Undefined
    /\ svcCalls[2].configs # Undefined
    /\ svcCalls[2].used.evolink_api_key = Str("k5")
    /\ Len(svcCalls[2].result.manager.providers) = 1
    /\ svcCalls[2].result.manager.providers[1].name = "evolink"
    /\ Len(svcCalls[1].result.manager.providers) = 1
    /\ svcCalls[1].result.manager.providers[1].name = "gemini"
    /\ aiService = svcCalls[1].result

(***************************************************************************)
(* The upload-file handlers (POST /api/storage/upload-file): the handler   *)
(* of upload-file/route.ts ("basic") and its extended version              *)
(* ("extended").  A file is its name, as characters, and its MIME type.    *)
(***************************************************************************)
EndsWith(str, suffix) ==
    /\ Len(str) >= Len(suffix)
    /\ \A i \in DOMAIN suffix : str[Len(str) - Len(suffix) + i] = suffix[i]

\* '.' + (filename.split('.').pop()?.toLowerCase() || '')
getFileExtension(filename) == <<".">> \o toLowerCase(LastSegment(filename))

isImageFile(file) == file.type \in {"image/jpeg", "image/png", "image/gif", "image/webp"}

isTextFile(variant, file) ==
    LET basic == { <<".","t","x","t">>, <<".","m","d">>, <<".","j","s","o","n">>,
                   <<".","c","s","v">>, <<".","x","m","l">>, <<".","h","t","m","l">>,
                   <<".","c","s","s">>, <<".","j","s">>, <<".","t","s">>, <<".","p","y">>,
                   <<".","j","a","v","a">>, <<".","c">>, <<".","c","p","p">>, <<".","h">>,
                   <<".","h","p","p">> }
        more == { <<".","s","h">>, <<".","y","a","m","l">>, <<".","y","m","l">>,
                  <<".","t","o","m","l">>, <<".","i","n","i">>, <<".","c","f","g">>,
                  <<".","l","o","g">> }
    IN getFileExtension(file.name)
          \in (IF variant = "extended" THEN basic \cup more ELSE basic)

isPdfFile(file) ==
    \/ file.type = "application/pdf"
    \/ EndsWith(toLowerCase(file.name), <<".","p","d","f">>)

\* the branch of the loop body taken for a file
FileBranch(variant, file) ==
    LET ext == getFileExtension(file.name)
        isWord == \/ ext \in {<<".","d","o","c","x">>, <<".","d","o","c">>}
                  \/ file.type \in {"application/vnd.openxmlformats-officedocument.wordprocessingml.document",
                                    "application/msword"}
        isExcel == \/ ext \in {<<".","x","l","s","x">>, <<".","x","l","s">>}
                   \/ file.type \in {"application/vnd.openxmlformats-officedocument.spreadsheetml.sheet",
                                     "application/vnd.ms-excel"}
    IN IF variant = "basic"
       THEN IF ~isImageFile(file) /\ ~isTextFile(variant, file) /\ ~isPdfFile(file)
            THEN "unsupported"
            ELSE IF isImageFile(file) THEN "image"
            ELSE IF isPdfFile(file) THEN "pdf"
            ELSE "text"
       ELSE IF isImageFile(file) THEN "image"
            ELSE IF isTextFile(variant, file) THEN "text"
            ELSE IF isPdfFile(file) THEN "pdf"
            ELSE IF isWord THEN "word"
            ELSE IF isExcel THEN "excel"
            ELSE "unknown"

\* the loop body goes on while an uploadFile call is in flight
LoopMayContinue_NoAwait(inflight) == TRUE

\* await storageService.uploadFile(...): the loop body is suspended until the
\* call in flight has settled
LoopMayContinue(inflight) == inflight = {}

\* uploadResults.push(result), and the response once the loop has passed the
\* last file with no upload in flight
PushResult(run, result) ==
    LET results == Append(run.results, result)
    IN [run EXCEPT !.results = results,
                   !.resp = IF run.i > Len(run.files) /\ run.inflight = {}
                            THEN respData([results |-> results])
                            ELSE run.resp]

(***************************************************************************)
(* Specification SpecUpload: one batch of up to MaxFiles files posted to   *)
(* one of the two handlers                                                 *)
(***************************************************************************)
MaxFiles == 3

InitUpload ==
    /\ \E variant \in {"basic", "extended"}, n \in 0..MaxFiles :
         \E files \in [1..n ->
                 { [name |-> <<"a",".","p","n","g">>, type |-> "image/png"],
                   [name |-> <<"b",".","P","D","F">>, type |-> ""],
                   [name |-> <<"c",".","t","x","t">>, type |-> "text/plain"],
                   [name |-> <<"d",".","d","o","c","x">>, type |-> ""],
                   [name |-> <<"e",".","b","i","n">>, type |-> "application/octet-stream"] }] :
            upload = [variant |-> variant, files |-> files, i |-> 1, inflight |-> {},
                      results |-> <<>>,
                      resp |-> IF n = 0 THEN respErr("No files provided") ELSE Null]
    /\ storageLog = <<>>
    /\ ServiceIdle /\ hookProcs = <<>> /\ admin = Null
    /\ HookIdle /\ StatusIdle /\ ProvIdle /\ ChatIdle

\* one pass of the loop body up to its first await on the storage service,
\* or to its end when the file needs no upload
ProcessFile ==
    /\ upload.resp = Null
    /\ upload.i <= Len(upload.files)
    /\ LoopMayContinue(upload.inflight)
    /\ LET i == upload.i
           file == upload.files[i]
           branch == FileBranch(upload.variant, file)
           next == [upload EXCEPT !.i = i + 1]
       IN IF branch = "unsupported"
          THEN /\ upload' = [upload EXCEPT !.resp = respErr("Unsupported file type")]
               /\ UNCHANGED storageLog
          ELSE IF branch = "image" \/ (branch = "pdf" /\ upload.variant = "basic")
          THEN /\ upload' = [next EXCEPT !.inflight = @ \cup {i}]
               /\ storageLog' = Append(storageLog, [ev |-> "begin", file |-> i])
          ELSE /\ upload' = PushResult(next, [filename |-> file.name, fileType |-> branch,
                                              url |-> Undefined,
                                              base64 |-> branch = "pdf"])
               /\ UNCHANGED storageLog
    /\ UNCHANGED <<svcVars, hookProcs, admin>>
    /\ UNCHANGED <<statusVars, hookVars, provVars, chatVars, delVars, presignVars>>

\* the uploadFile call in flight settles: it succeeded, it reported a failure
\* or it threw, and the loop body runs to its end
UploadSettles(outcome) ==
    /\ upload.resp = Null
    /\ \E i \in upload.inflight :
         LET file == upload.files[i]
             run == [upload EXCEPT !.inflight = @ \ {i}]
             branch == FileBranch(upload.variant, file)
         IN /\ storageLog' = Append(storageLog, [ev |-> "end", file |-> i])
            /\ upload' =
                 IF outcome = "success"
                 THEN PushResult(run, [filename |-> file.name, fileType |-> branch,
                                       url |-> Str(<<"stored", i>>),
                                       base64 |-> branch = "pdf"])
                 ELSE IF upload.variant = "extended"
                 THEN PushResult(run, [filename |-> file.name, fileType |-> branch,
                                       url |-> Undefined, base64 |-> TRUE])
                 ELSE IF outcome = "failure"
                 THEN [run EXCEPT !.resp = respErr("Upload failed")]
                 ELSE [run EXCEPT !.resp = respErr("upload file failed")]
    /\ UNCHANGED <<svcVars, hookProcs, admin>>
    /\ UNCHANGED <<statusVars, hookVars, provVars, chatVars, delVars, presignVars>>

NextUpload ==
    \/ ProcessFile
    \/ \E outcome \in {"success", "failure", "throws"} : UploadSettles(outcome)

SpecUpload == InitUpload /\ [][NextUpload]_vars

\* C12: the uploads of a batch never overlap and follow the input order (an
\* uploadFile call begins only when every earlier one has ended, and for a
\* later file), and a successful response holds one result per submitted
\* file, in the order of submission.
C12_UploadsOneAtATime ==
    /\ \A k \in DOMAIN storageLog :
          /\ (k % 2 = 1) => storageLog[k].ev = "begin"
          /\ (k % 2 = 0) => /\ storageLog[k].ev = "end"
                            /\ storageLog[k].file = storageLog[k - 1].file
          /\ \A l \in DOMAIN storageLog :
                (l < k /\ storageLog[l].ev = "begin" /\ storageLog[k].ev = "begin")
                    => storageLog[l].file < storageLog[k].file
    /\ (upload # Null /\ upload.resp # Null /\ upload.resp.code = 0) =>
          /\ Len(upload.resp.data.results) = Len(upload.files)
          /\ \A i \in DOMAIN upload.files :
                upload.resp.data.results[i].filename = upload.files[i].name

C12_Witness ==
    /\ upload # Null
    /\ upload.variant = "basic"
    /\ upload.resp # Null
    /\ upload.resp.code = 0
    /\ Len(upload.files) = 3
    /\ upload.files[1].type = "image/png"
    /\ upload.files[2].type = "text/plain"
    /\ upload.files[3].type = ""
    /\ Len(storageLog) = 4
    /\ storageLog[3] = [ev |-> "begin", file |-> 3]

(***************************************************************************)
(* Specification SpecHookRace: RaceDeliveries webhook deliveries handled   *)
(* concurrently.  A handler runs without interruption between two awaits;  *)
(* the awaits that touch the ai_task table are the lookup and the update.  *)
(***************************************************************************)
RaceDeliveries == 2

InitHookRace ==
    /\ hookProcs \in
         [1..RaceDeliveries ->
            { [pc |-> "received", raw |-> c[1], env |-> c[2], found |-> "none",
               row |-> Null, resp |-> NoResp] :
                c \in (BodiesFor(Str("t1"),
                                 {Str(W_completed), Str(W_failed), Str(W_processing)},
                                 {NoMedia, <<Str("video"), Arr(VendorUrls)>>})
                         \X {PlainEnv})
                      \cup (BodiesFor(Str("t1"), {Str(W_completed)},
                                      {<<Str("video"), Arr(VendorUrls)>>})
                              \X {Env("true", "all", "ok"), Env("true", "throws", "ok")})
                      \cup (BodiesFor(Str("t9"), {Str(W_completed)}, {NoMedia})
                              \X {PlainEnv}) }]
    /\ HookIdle /\ StatusIdle /\ ProvIdle /\ ChatIdle
    /\ ServiceIdle /\ upload = Null /\ storageLog = <<>> /\ admin = Null

\* lines 22-46 of delivery p: the body is parsed and the task looked up; the
\* handler keeps the row it read
HookLookup(p) ==
    /\ hookProcs[p].pc = "received"
    /\ \E o \in {HookPOST(hookProcs[p].raw, hookProcs[p].env, tasks)} :
          hookProcs' =
             [hookProcs EXCEPT ![p] =
                 IF o.read = "none"
                 THEN [@ EXCEPT !.pc = "done", !.resp = o.resp]
                 ELSE [@ EXCEPT !.pc = "found", !.found = o.read, !.row = tasks[o.read]]]
    /\ UNCHANGED <<svcVars, uploadVars, admin>>
    /\ UNCHANGED <<statusVars, hookVars, provVars, chatVars, delVars, presignVars>>

\* lines 48-164 of delivery p: status and taskInfo from its payload, the
\* update of the row as the table is now, and the answer
HookUpdate(p) ==
    /\ hookProcs[p].pc = "found"
    /\ LET id == hookProcs[p].found
           asRead == [tasks EXCEPT ![id] = hookProcs[p].row]
       IN \E o \in {HookAfterLookup(hookProcs[p].raw, hookProcs[p].env, asRead, id)} :
             /\ tasks' = IF o.resp.message = "success"
                         THEN updateAITaskById(tasks, id, o.writes[1].data)
                         ELSE tasks
             /\ hookProcs' = [hookProcs EXCEPT ![p] = [@ EXCEPT !.pc = "done",
                                                                !.resp = o.resp]]
    /\ UNCHANGED <<hookRaw, hookEnv, hookResp, hookRead, hookBefore, hookWrites, hookSaves,
                   deliveries>>
    /\ UNCHANGED <<svcVars, uploadVars, admin>>
    /\ UNCHANGED <<statusVars, provVars, chatVars, delVars, presignVars>>

NextHookRace == \E p \in 1..RaceDeliveries : HookLookup(p) \/ HookUpdate(p)

SpecHookRace == InitHookRace /\ [][NextHookRace]_vars

\* C15: under every interleaving of the deliveries, the status, taskInfo and
\* taskResult a task row holds come from one delivery: the status is the
\* mapping of the status in the stored taskResult, and taskInfo.status is that
\* same vendor status.
C15_RowFromOneDelivery ==
    \A r \in TaskRowIds :
        tasks[r].taskResult # Null =>
            /\ tasks[r].status = StatusTable(tasks[r].taskResult.value.status)
            /\ tasks[r].taskInfo # Null
            /\ tasks[r].taskInfo.status = tasks[r].taskResult.value.status

\* both deliveries read the row before either wrote it, and both wrote
C15_Witness ==
    /\ \A p \in 1..2 : /\ hookProcs[p].pc = "done"
                       /\ hookProcs[p].resp.message = "success"
                       /\ hookProcs[p].row.status = "PENDING"
    /\ hookProcs[1].raw.value.status = Str(W_completed)
    /\ hookProcs[2].raw.value.status = Str(W_failed)
    /\ tasks["r1"].status = "SUCCESS"

(***************************************************************************)
(* The admin edit-credits form (admin/users/[id]/edit-credits/page.tsx)    *)
(***************************************************************************)
\* the value of a digit character in the radix, -1 for any other character
DigitValue(c, radix) ==
    LET digits == <<"0","1","2","3","4","5","6","7","8","9","a","b","c","d","e","f">>
        upper == <<"0","1","2","3","4","5","6","7","8","9","A","B","C","D","E","F">>
        hits == {i \in 1..radix : digits[i] = c \/ upper[i] = c}
    IN IF hits = {} THEN -1 ELSE (CHOOSE i \in hits : TRUE) - 1

\* parseInt(value): leading white space skipped, an optional sign, an optional
\* 0x prefix, then the longest run of digits; NaN when there is no digit.
\* A missing field is null, which parseInt reads as the text 'null'.
parseInt(value) ==
    LET str == IF value.t = "string" THEN value.s ELSE <<"n","u","l","l">>
        RECURSIVE SkipSpace(_)
        SkipSpace(i) == IF i <= Len(str) /\ str[i] = " " THEN SkipSpace(i + 1) ELSE i
        start == SkipSpace(1)
        signed == start <= Len(str) /\ str[start] \in {"+", "-"}
        sign == IF signed /\ str[start] = "-" THEN -1 ELSE 1
        body == IF signed THEN start + 1 ELSE start
        hex == body + 1 <= Len(str) /\ str[body] = "0" /\ str[body + 1] \in {"x", "X"}
        radix == IF hex THEN 16 ELSE 10
        first == IF hex THEN body + 2 ELSE body
        RECURSIVE Digits(_, _)
        Digits(i, acc) ==
            IF i <= Len(str) /\ DigitValue(str[i], radix) >= 0
            THEN Digits(i + 1, acc * radix + DigitValue(str[i], radix))
            ELSE [nan |-> i = first, n |-> sign * acc]
    IN Digits(first, 0)

\* line 103: parseInt(data.get('targetCredits') as string) || 0
TargetCredits(value) ==
    LET r == parseInt(value) IN IF r.nan \/ r.n = 0 THEN 0 ELSE r.n

\* line 102: data.get('unlimitedCredits') === 'true' || ... === 'on'
UnlimitedSwitch(value) == value = Str("true") \/ value = Str("on")

\* updateUser(userId, {unlimitedCredits}): sets the flag of that user's row
updateUser(users, userId, unlimitedCredits) ==
    IF userId \in DOMAIN users
    THEN [users EXCEPT ![userId] = [@ EXCEPT !.unlimitedCredits = unlimitedCredits]]
    ELSE users

\* setUserCredits({userId, targetCredits, ...}): the user's balance becomes the target
setUserCredits(users, userId, targetCredits) ==
    IF userId \in DOMAIN users
    THEN [users EXCEPT ![userId] = [@ EXCEPT !.credits = targetCredits]]
    ELSE users

\* lines 93-132: the submit handler on the user table; fault names the call
\* that throws
EditCreditsSubmit(data, passby, users, fault) ==
    IF passby.user = Null
    THEN [threw |-> TRUE, message |-> "no auth", users |-> users, calls |-> <<>>]
    ELSE
      LET user == passby.user
          unlimitedCredits == UnlimitedSwitch(data.unlimitedCredits)
          targetCredits == TargetCredits(data.targetCredits)
          expiresAt == IF Truthy(data.expiresAt) THEN data.expiresAt ELSE Null
          flagged == updateUser(users, user.id, unlimitedCredits)
          flagCall == [fn |-> "updateUser", userId |-> user.id,
                       unlimitedCredits |-> unlimitedCredits]
          creditCall == [fn |-> "setUserCredits", userId |-> user.id,
                         targetCredits |-> targetCredits, expiresAt |-> expiresAt,
                         scene |-> "admin_adjust", note |-> data.note]
      IN IF fault = "updateUser"
         THEN [threw |-> TRUE, message |-> "update failed", users |-> users, calls |-> <<>>]
         ELSE IF unlimitedCredits
         THEN [threw |-> FALSE, message |-> "credits updated", users |-> flagged,
               calls |-> <<flagCall>>]
         ELSE IF fault = "setUserCredits"
         THEN [threw |-> TRUE, message |-> "set credits failed", users |-> flagged,
               calls |-> <<flagCall>>]
         ELSE [threw |-> FALSE, message |-> "credits updated",
               users |-> setUserCredits(flagged, user.id, targetCredits),
               calls |-> <<flagCall, creditCall>>]

(***************************************************************************)
(* Specification SpecAdmin: submits of the edit-credits form for two users *)
(***************************************************************************)
MaxEdits == 2

\* the texts the targetCredits field is submitted with (Null: no field)
TargetTexts ==
    {Null, Str(<<>>), Str(<<"a","b","c">>), Str(<<"0">>), Str(<<"2","5">>),
     Str(<<"-","5">>), Str(<<" ","4","2">>), Str(<<"1","2","a","b","c">>),
     Str(<<"1","e","3">>), Str(<<"0","x","1","0">>)}

EditSubmits ==
    { [data |-> [unlimitedCredits |-> sw, targetCredits |-> target,
                 expiresAt |-> Str(""), note |-> Str("adjust")],
       passby |-> [user |-> u], fault |-> "none"] :
        sw \in {Null, Str("true"), Str("on"), Str("false")},
        target \in TargetTexts,
        u \in {Null, [id |-> "u1"], [id |-> "u2"]} }
      \cup
    { [data |-> [unlimitedCredits |-> sw, targetCredits |-> Str(<<"2","5">>),
                 expiresAt |-> Str("2030-01-01"), note |-> Str("adjust")],
       passby |-> [user |-> [id |-> "u1"]], fault |-> f] :
        sw \in {Str("on"), Str("false")}, f \in {"updateUser", "setUserCredits"} }

InitAdmin ==
    /\ \E c \in {0, 50}, f \in BOOLEAN :
          admin = [users |-> [u \in {"u1", "u2"} |->
                                 IF u = "u1" THEN [credits |-> c, unlimitedCredits |-> f]
                                 ELSE [credits |-> 7, unlimitedCredits |-> FALSE]],
                   edits |-> 0, req |-> Null, resp |-> Null, calls |-> <<>>]
    /\ HookIdle /\ StatusIdle /\ ProvIdle /\ ChatIdle
    /\ ServiceIdle /\ upload = Null /\ storageLog = <<>> /\ hookProcs = <<>>

\* one submit of the form, from the form data to the handler's answer
SubmitEdit(req) ==
    /\ admin.edits < MaxEdits
    /\ \E o \in {EditCreditsSubmit(req.data, req.passby, admin.users, req.fault)} :
          admin' = [users |-> o.users, edits |-> admin.edits + 1, req |-> req,
                    resp |-> IF o.threw THEN [status |-> "error", message |-> o.message]
                             ELSE [status |-> "success", message |-> o.message],
                    calls |-> o.calls]
    /\ UNCHANGED <<svcVars, uploadVars, hookProcs>>
    /\ UNCHANGED <<statusVars, hookVars, provVars, chatVars, delVars, presignVars>>

NextAdmin == \E req \in EditSubmits : SubmitEdit(req)

SpecAdmin == InitAdmin /\ [][NextAdmin]_vars

\* the number a submitted target text denotes; not numeric for a missing
\* field and for a text that is not a number
SubmittedNumber(value) ==
    LET Is(n) == [numeric |-> TRUE, n |-> n]
    IN CASE value = Str(<<"0">>) -> Is(0)
         [] value = Str(<<"2","5">>) -> Is(25)
         [] value = Str(<<"-","5">>) -> Is(-5)
         [] value = Str(<<" ","4","2">>) -> Is(42)
         [] value = Str(<<"1","e","3">>) -> Is(1000)
         [] value = Str(<<"0","x","1","0">>) -> Is(16)
         [] OTHER -> [numeric |-> FALSE, n |-> 0]

\* the effect the claim gives a submit that the handler answers with success
EditEffectAsClaimed(req, before, after) ==
    LET id == req.passby.user.id
        target == SubmittedNumber(req.data.targetCredits)
    IN IF req.data.unlimitedCredits \in {Str("true"), Str("on")}
       THEN /\ after[id].unlimitedCredits = TRUE
            /\ after[id].credits = before[id].credits
       ELSE /\ after[id].unlimitedCredits = FALSE
            /\ after[id].credits = (IF target.numeric THEN target.n ELSE 0)

\* C25: a submit with the unlimited switch on sets the user's flag and leaves
\* the balance alone; with the switch off it clears the flag and sets the
\* balance to the submitted target, a missing or non-numeric target counting
\* as 0; no submit changes another user.
C25_EditCreditsEffects ==
    [][ admin'.edits # admin.edits =>
          /\ admin'.req.passby.user = Null => admin'.users = admin.users
          /\ admin'.req.passby.user # Null =>
                \A u \in DOMAIN admin.users \ {admin'.req.passby.user.id} :
                    admin'.users[u] = admin.users[u]
          /\ admin'.resp.status = "success" =>
                EditEffectAsClaimed(admin'.req, admin.users, admin'.users) ]_vars

====
